---- MODULE Spec2Model ----
(***************************************************************************)
(* Interactive geometry engine of the 2D drafting surface: the measurement *)
(* click state machine, the pointer-driven drag / resize / rotate modes    *)
(* and the tracking of measurement endpoints attached to shapes.           *)
(*                                                                         *)
(* Lengths are integers in centimetres (1 unit = 0.01 m); the minimum      *)
(* dimension length 0.3048 m is kept in units of 0.1 mm and compared on    *)
(* squared distances, so every threshold comparison is exact.  Rotations   *)
(* are integers in degrees, taken modulo 360, and restricted to multiples  *)
(* of 90 so that the rotation matrices are exact.  A value that may be     *)
(* null in the source is a sequence of length 0 or 1; a measurement id is  *)
(* a positive integer and 0 stands for null.  The scene holds one plane    *)
(* and one circle; triangles and lines are not part of it, and edge        *)
(* snapping stays at its initial setting (off).                            *)
(*                                                                         *)
(* Spec is a measuring session (mode toggle, settings, pointer moves and   *)
(* clicks); SpecDrag is an editing session with the select tool (pointer   *)
(* down, move, up and the delete key) on a scene that already carries two  *)
(* measurements.                                                           *)
(***************************************************************************)
EXTENDS Integers, Sequences, FiniteSets, TLC

VARIABLES
  \* measurementManager.ts
  measureMode, measurements, activeMeasurementId,
  \* store.ts (UI store)
  storeActiveMeasurementId,
  \* measureTool.ts
  snapToPoints, allowFreeMeasurement, firstPoint, secondPoint,
  currentSnapPoint, previewDimensionOffset, firstPointShapeUuid,
  secondPointShapeUuid, secondClickPosition,
  \* trackMeasurement.ts
  measurementTrackingMap, shapeToMeasurementsMap,
  \* scene / selection.ts
  shapes, selected,
  \* dragSelection.ts
  isDraggingSelectedObject, selectedObjectOffset, activeResizeHandle,
  activeResizeKind,
  \* planeResize.ts, circleResize.ts
  planeResize, circleResize,
  \* planeRotate.ts, circleRotate.ts
  planeRotate, circleRotate,
  \* measurementInteraction.ts
  labelDrag,
  \* history: id source of addMeasurement, the unclamped first click, and
  \* the outcome of the last handled event
  nextMeasurementId, clickA, lastEvent,
  \* number of pointer-down events of the session
  gestureCount,
  \* a function of the engine taken alone: the arguments it is called with
  \* and the value it returned (both empty outside such a call)
  probe, returned

measureToolVars == <<snapToPoints, allowFreeMeasurement, firstPoint,
                     secondPoint, currentSnapPoint, previewDimensionOffset,
                     firstPointShapeUuid, secondPointShapeUuid,
                     secondClickPosition, clickA>>
managerVars == <<measurements, activeMeasurementId, storeActiveMeasurementId,
                 nextMeasurementId>>
trackingVars == <<measurementTrackingMap, shapeToMeasurementsMap>>
sceneVars == <<shapes, selected>>
moduleVars == <<planeResize, circleResize, planeRotate, circleRotate>>
dragVars == <<isDraggingSelectedObject, selectedObjectOffset,
              activeResizeHandle, activeResizeKind>>
callVars == <<probe, returned>>
programVars == <<measureMode, measureToolVars, managerVars, trackingVars,
                 sceneVars, moduleVars, dragVars, labelDrag, lastEvent,
                 gestureCount>>
vars == <<measureMode, measureToolVars, managerVars, trackingVars, sceneVars,
          moduleVars, dragVars, labelDrag, lastEvent, gestureCount, callVars>>

-----------------------------------------------------------------------------
(* Bounds of the model *)

MaxMeasurements == 1
\* pointer-down events of an editing session
MaxGestures == 2
\* largest coordinate of a shape centre and largest half extent, 8 m
MaxCoord == 800
\* largest offset, along each axis, of a probed cursor from a feature
MaxProbeOffset == 8
\* largest small displacement of a dragged shape from an aligned position
MaxNudge == 2

\* largest half extent of a shape, and largest distance on each axis between
\* a point and the centre of the shape, in the coordinate round trip
MaxHalfExtent == 3
MaxRoundOffset == 4

\* largest pointer angle of a rotate drag taken alone, in whole degrees on
\* either side of the x axis
MaxRotateAngle == 15

-----------------------------------------------------------------------------
(* Program constants *)

\* 0.3048 m, in units of 0.1 mm
MIN_DIMENSION_LENGTH_M == 3048
\* 0.15 m
SAME_POINT_TOLERANCE == 15
\* snapThreshold of getBestSnap, 0.3 m
snapThreshold == 30
\* snapThreshold of findNearestSnapPoint, 0.5 m
nearestSnapThreshold == 50
\* pointPriorityBias of getBestSnap, 0.05 m
pointPriorityBias == 5
\* showGuideLines of measureTool.ts, which no caller changes
showGuideLines == TRUE
\* maxOffset of clampDimensionOffset, 20 m
maxOffset == 2000
\* side of the drawing plane, 40 m
drawPlaneSize == 4000
\* margin of clampToCanvasBounds, 0.5 m
margin == 50
\* measurementSettings.defaultDimensionOffset, 0.2 m
defaultDimensionOffset == 20
\* labelOffset of a new measurement, 0.5, in percent
defaultLabelOffset == 50
\* previewDimensionOffset at module load, 1.0 m
initialPreviewDimensionOffset == 100
\* smallest width and height a plane resize produces, 0.2 m
minPlaneExtent == 20
\* smallest radius a circle resize produces, 0.1 m
minRadius == 10
\* extent assumed at begin for a flat shape, 0.1 m
flatExtent == 10

-----------------------------------------------------------------------------
(* Arithmetic helpers *)

Max(a, b) == IF a >= b THEN a ELSE b
Min(a, b) == IF a <= b THEN a ELSE b
Abs(a) == IF a >= 0 THEN a ELSE -a

\* division rounding toward zero, as a float quotient rounded to the unit
SDiv(a, b) == IF a >= 0 THEN a \div b ELSE -((-a) \div b)

RECURSIVE SqrtIter(_, _, _)
SqrtIter(n, lo, hi) ==
  IF lo >= hi THEN lo
  ELSE LET mid == (lo + hi + 1) \div 2
       IN IF mid * mid <= n THEN SqrtIter(n, mid, hi)
          ELSE SqrtIter(n, lo, mid - 1)

\* Vector3.length(), rounded down to the unit
ISqrt(n) == SqrtIter(n, 0, 46340)

Pt(px, py) == [x |-> px, y |-> py]

\* Vector3.distanceToSquared
DistSq(a, b) == (a.x - b.x) * (a.x - b.x) + (a.y - b.y) * (a.y - b.y)

\* a.distanceTo(b) < t, for t in model units
DistLess(a, b, t) == DistSq(a, b) < t * t

\* a.distanceTo(b) < t, for t in units of 0.1 mm
DistLessE4(a, b, t) ==
  LET d2 == DistSq(a, b)
  IN d2 < 200000 /\ d2 * 10000 < t * t

\* cos and sin of a rotation in degrees (multiples of 90)
Cos(d) == CASE d % 360 = 0 -> 1 [] d % 360 = 90 -> 0
            [] d % 360 = 180 -> -1 [] d % 360 = 270 -> 0
Sin(d) == CASE d % 360 = 0 -> 0 [] d % 360 = 90 -> 1
            [] d % 360 = 180 -> 0 [] d % 360 = 270 -> -1


-----------------------------------------------------------------------------
(* Scene: shapes, their local bounding boxes and transforms *)

ShapeIds == {"s1", "s2"}

\* scene.children in insertion order; s3 is a second plane that only the
\* scenes of the alignment resolver hold
sceneOrder == <<"s1", "s2", "s3">>

Plane(cx, cy, w, h) ==
  [kind |-> "plane", position |-> Pt(cx, cy), rotation |-> 0,
   halfWidth |-> w \div 2, halfHeight |-> h \div 2]

Circle(radius, cx, cy) ==
  [kind |-> "circle", position |-> Pt(cx, cy), rotation |-> 0,
   halfWidth |-> radius, halfHeight |-> radius]

\* a 4 m x 2 m plane centred at (4, 3) and a circle of radius 2 m centred
\* at (12, 3), as left by the plane and circle drawing tools
InitialShapes ==
  [id \in ShapeIds |->
     IF id = "s1" THEN Plane(400, 300, 400, 200) ELSE Circle(200, 400, 700)]

\* geometry.computeBoundingBox() of a centred plane or ellipse geometry
boundingBox(shape) ==
  [min |-> Pt(-shape.halfWidth, -shape.halfHeight),
   max |-> Pt(shape.halfWidth, shape.halfHeight)]

\* Object3D.localToWorld: rotation about z, then translation (scale is 1)
localToWorld(shape, p) ==
  Pt(shape.position.x + p.x * Cos(shape.rotation) - p.y * Sin(shape.rotation),
     shape.position.y + p.x * Sin(shape.rotation) + p.y * Cos(shape.rotation))

\* variant: the rotation of the shape is not undone
worldToLocal_mut(worldPoint, shape) ==
  LET rx == worldPoint.x - shape.position.x
      ry == worldPoint.y - shape.position.y
  IN Pt(rx, ry)

worldToLocal(worldPoint, shape) ==
  LET rx == worldPoint.x - shape.position.x
      ry == worldPoint.y - shape.position.y
  IN Pt(rx * Cos(shape.rotation) + ry * Sin(shape.rotation),
        ry * Cos(shape.rotation) - rx * Sin(shape.rotation))

\* scene.getObjectByProperty('uuid', shapeId) is a THREE.Mesh
IsMesh(sh, id) == id \in DOMAIN sh /\ sh[id].kind \in {"plane", "circle"}

-----------------------------------------------------------------------------
(* snapDetection.ts *)

SnapPoint(p, t, id) == [position |-> p, type |-> t, shapeId |-> id]

lerpHalf(a, b) == Pt(SDiv(a.x + b.x, 2), SDiv(a.y + b.y, 2))

getPlaneSnapPoints(sh, id) ==
  LET bbox == boundingBox(sh[id])
      c == <<localToWorld(sh[id], Pt(bbox.min.x, bbox.min.y)),
             localToWorld(sh[id], Pt(bbox.max.x, bbox.min.y)),
             localToWorld(sh[id], Pt(bbox.max.x, bbox.max.y)),
             localToWorld(sh[id], Pt(bbox.min.x, bbox.max.y))>>
  IN [i \in 1..4 |-> SnapPoint(c[i], "vertex", id)]
     \o [i \in 1..4 |-> SnapPoint(lerpHalf(c[i], c[(i % 4) + 1]), "midpoint", id)]
     \o <<SnapPoint(sh[id].position, "center", id)>>

getCircleSnapPoints(sh, id) ==
  LET bbox == boundingBox(sh[id])
      radiusX == SDiv(bbox.max.x - bbox.min.x, 2)
      radiusY == SDiv(bbox.max.y - bbox.min.y, 2)
  IN <<SnapPoint(localToWorld(sh[id], Pt(radiusX, 0)), "vertex", id),
       SnapPoint(localToWorld(sh[id], Pt(0, radiusY)), "vertex", id),
       SnapPoint(localToWorld(sh[id], Pt(-radiusX, 0)), "vertex", id),
       SnapPoint(localToWorld(sh[id], Pt(0, -radiusY)), "vertex", id),
       SnapPoint(sh[id].position, "center", id)>>

RECURSIVE collectFrom(_, _)
collectFrom(sh, i) ==
  IF i > Len(sceneOrder) THEN <<>>
  ELSE LET id == sceneOrder[i]
       IN (IF id \notin DOMAIN sh THEN <<>>
           ELSE IF sh[id].kind = "plane" THEN getPlaneSnapPoints(sh, id)
           ELSE IF sh[id].kind = "circle" THEN getCircleSnapPoints(sh, id)
           ELSE <<>>)
          \o collectFrom(sh, i + 1)

collectAllSnapPoints(sh) == collectFrom(sh, 1)

\* the first snap point at the smallest distance below 0.5 m, or none
findNearestSnapPoint(worldPosition, allSnapPoints) ==
  LET d(i) == DistSq(worldPosition, allSnapPoints[i].position)
      best == {i \in 1..Len(allSnapPoints) :
                 /\ d(i) < nearestSnapThreshold * nearestSnapThreshold
                 /\ \A j \in 1..Len(allSnapPoints) :
                      /\ d(j) >= d(i)
                      /\ (j < i => d(j) > d(i))}
  IN IF best = {} THEN <<>> ELSE <<allSnapPoints[CHOOSE i \in best : TRUE]>>

-----------------------------------------------------------------------------
(* snapEdges.ts *)

SnapEdge(a, b, id, name) ==
  [start |-> a, end |-> b, shapeId |-> id, shapeName |-> name]

\* the four corners of the bounding box of a plane, in world space
cornersWorld(sh, id) ==
  LET bbox == boundingBox(sh[id])
  IN <<localToWorld(sh[id], Pt(bbox.min.x, bbox.min.y)),
       localToWorld(sh[id], Pt(bbox.max.x, bbox.min.y)),
       localToWorld(sh[id], Pt(bbox.max.x, bbox.max.y)),
       localToWorld(sh[id], Pt(bbox.min.x, bbox.max.y))>>

getPlaneEdges(sh, id) ==
  LET c == cornersWorld(sh, id)
  IN [i \in 1..4 |-> SnapEdge(c[i], c[(i % 4) + 1], id, "plane")]

\* the two diameters of a circle; getCircleGuideLines returns the same
\* segments under the name circle-diameter
circleDiameters(sh, id, name) ==
  LET bbox == boundingBox(sh[id])
      radiusX == SDiv(bbox.max.x - bbox.min.x, 2)
      radiusY == SDiv(bbox.max.y - bbox.min.y, 2)
  IN <<SnapEdge(localToWorld(sh[id], Pt(-radiusX, 0)),
                localToWorld(sh[id], Pt(radiusX, 0)), id, name),
       SnapEdge(localToWorld(sh[id], Pt(0, -radiusY)),
                localToWorld(sh[id], Pt(0, radiusY)), id, name)>>

getCircleEdges(sh, id) == circleDiameters(sh, id, "circle")

getPlaneGuideLines(sh, id) ==
  LET c == cornersWorld(sh, id)
  IN <<SnapEdge(c[1], c[3], id, "plane-diagonal"),
       SnapEdge(c[2], c[4], id, "plane-diagonal"),
       SnapEdge(lerpHalf(c[1], c[2]), lerpHalf(c[3], c[4]), id, "plane-center"),
       SnapEdge(lerpHalf(c[2], c[3]), lerpHalf(c[4], c[1]), id, "plane-center")>>

getCircleGuideLines(sh, id) == circleDiameters(sh, id, "circle-diameter")

RECURSIVE collectEdgesFrom(_, _, _)
collectEdgesFrom(sh, includeGuides, i) ==
  IF i > Len(sceneOrder) THEN <<>>
  ELSE LET id == sceneOrder[i]
       IN (IF id \notin DOMAIN sh THEN <<>>
           ELSE IF sh[id].kind = "plane"
           THEN getPlaneEdges(sh, id)
                \o (IF includeGuides THEN getPlaneGuideLines(sh, id) ELSE <<>>)
           ELSE IF sh[id].kind = "circle"
           THEN getCircleEdges(sh, id) \o getCircleGuideLines(sh, id)
           ELSE <<>>)
          \o collectEdgesFrom(sh, includeGuides, i + 1)

collectAllSnapEdges(sh, includeGuides) == collectEdgesFrom(sh, includeGuides, 1)

\* the clamped projection of point on the segment, its coordinates rounded
\* to the unit
closestPointOnSegment(point, segmentStart, segmentEnd) ==
  LET vx == segmentEnd.x - segmentStart.x
      vy == segmentEnd.y - segmentStart.y
      segmentLengthSquared == vx * vx + vy * vy
      dot == (point.x - segmentStart.x) * vx + (point.y - segmentStart.y) * vy
  IN IF segmentLengthSquared = 0 THEN segmentStart
     ELSE IF dot <= 0 THEN segmentStart
     ELSE IF dot >= segmentLengthSquared THEN segmentEnd
     ELSE Pt(segmentStart.x + SDiv(vx * dot, segmentLengthSquared),
             segmentStart.y + SDiv(vy * dot, segmentLengthSquared))

\* the projection on the first edge at the smallest distance below the
\* threshold, or none
findNearestEdgeSnap(worldPosition, edges, threshold) ==
  LET closest(i) == closestPointOnSegment(worldPosition, edges[i].start,
                                          edges[i].end)
      d(i) == DistSq(worldPosition, closest(i))
      best == {i \in 1..Len(edges) :
                 /\ d(i) < threshold * threshold
                 /\ \A j \in 1..Len(edges) :
                      /\ d(j) >= d(i)
                      /\ (j < i => d(j) > d(i))}
  IN IF best = {} THEN <<>>
     ELSE LET i == CHOOSE k \in best : TRUE
          IN <<SnapPoint(closest(i), "edge", edges[i].shapeId)>>

-----------------------------------------------------------------------------
(* measurementCalculator.ts *)

\* (mouse - midpoint) . perpendicular, where perpendicular is the unit line
\* direction turned by 90 degrees; a zero-length line has direction (0, 0)
calculateDimensionOffset(startPoint, endPoint, mousePosition) ==
  LET dx == endPoint.x - startPoint.x
      dy == endPoint.y - startPoint.y
      len == ISqrt(dx * dx + dy * dy)
      tx == 2 * mousePosition.x - startPoint.x - endPoint.x
      ty == 2 * mousePosition.y - startPoint.y - endPoint.y
  IN IF len = 0 THEN 0 ELSE SDiv(tx * (-dy) + ty * dx, 2 * len)

clampDimensionOffset(offset, maxOff) == Max(-maxOff, Min(maxOff, offset))

-----------------------------------------------------------------------------
(* measureTool.ts: helpers *)

clampToCanvasBounds(p) ==
  LET halfW == drawPlaneSize \div 2
      halfH == drawPlaneSize \div 2
  IN Pt(Max(-halfW + margin, Min(halfW - margin, p.x)),
        Max(-halfH + margin, Min(halfH - margin, p.y)))

\* variant: no priority bias, the strictly closer candidate wins
closerByBias_mut(dSq, bestDistSq) ==
  \/ bestDistSq = <<>>
  \/ dSq < bestDistSq[1]

\* d < bestDist - pointPriorityBias on squared distances, bestDist being
\* Infinity when nothing was found yet: sqrt(a) + k < sqrt(b) exactly when
\* b - a - k * k > 0 and 4 * k * k * a < (b - a - k * k) ^ 2
closerByBias(dSq, bestDistSq) ==
  \/ bestDistSq = <<>>
  \/ LET rest == bestDistSq[1] - dSq - pointPriorityBias * pointPriorityBias
     IN rest > 0 /\ 4 * pointPriorityBias * pointPriorityBias * dSq < rest * rest

\* the loop over the edges of getBestSnap; best carries bestSnap, bestEdge
\* and the square of bestDist
RECURSIVE edgeLoop(_, _, _, _)
edgeLoop(mouseWorldPos, allEdges, i, best) ==
  IF i > Len(allEdges) THEN best
  ELSE LET candidate == findNearestEdgeSnap(mouseWorldPos, <<allEdges[i]>>,
                                            snapThreshold)
           dSq == DistSq(mouseWorldPos, candidate[1].position)
       IN IF candidate # <<>> /\ dSq < snapThreshold * snapThreshold
             /\ closerByBias(dSq, best.bestDistSq)
          THEN edgeLoop(mouseWorldPos, allEdges, i + 1,
                        [snap |-> candidate, edge |-> <<allEdges[i]>>,
                         bestDistSq |-> <<dSq>>])
          ELSE edgeLoop(mouseWorldPos, allEdges, i + 1, best)

\* the pass of getBestSnap over the snap points
pointPass(mouseWorldPos, sh, toPoints) ==
  LET pointSnap == IF toPoints
                   THEN findNearestSnapPoint(mouseWorldPos,
                                             collectAllSnapPoints(sh))
                   ELSE <<>>
  IN IF pointSnap # <<>>
        /\ DistLess(mouseWorldPos, pointSnap[1].position, snapThreshold)
     THEN [snap |-> pointSnap, edge |-> <<>>,
           bestDistSq |-> <<DistSq(mouseWorldPos, pointSnap[1].position)>>]
     ELSE [snap |-> <<>>, edge |-> <<>>, bestDistSq |-> <<>>]

\* getBestSnap on a scene under the three snap settings
getBestSnapIn(mouseWorldPos, sh, toPoints, toEdges, guides) ==
  LET afterPoints == pointPass(mouseWorldPos, sh, toPoints)
      afterEdges ==
        IF toEdges
        THEN edgeLoop(mouseWorldPos, collectAllSnapEdges(sh, guides), 1,
                      afterPoints)
        ELSE afterPoints
  IN [snap |-> afterEdges.snap, edge |-> afterEdges.edge]

\* the snap of getBestSnap in the sessions, where edge snapping keeps its
\* initial setting (off) and the pass over the edges is skipped
getBestSnap(mouseWorldPos) ==
  pointPass(mouseWorldPos, shapes, snapToPoints).snap

\* variant: the uuid of the first mesh of the scene, whatever the snap
findShapeUuidFromSnap_mut(snap) ==
  IF snap # <<>> /\ IsMesh(shapes, sceneOrder[1])
  THEN sceneOrder[1] ELSE "undefined"

findShapeUuidFromSnap(snap) ==
  IF snap # <<>> /\ IsMesh(shapes, snap[1].shapeId)
  THEN snap[1].shapeId ELSE "undefined"

\* variant: no minimum length
IsTooShort_mut(a, b) == FALSE

\* distance < MIN_DIMENSION_LENGTH_M
IsTooShort(a, b) == DistLessE4(a, b, MIN_DIMENSION_LENGTH_M)

-----------------------------------------------------------------------------
(* trackMeasurement.ts *)

Half == [n |-> 1, d |-> 2]

getNormalizedCoordinates(localPoint, shape) ==
  LET bbox == boundingBox(shape)
      width == bbox.max.x - bbox.min.x
      height == bbox.max.y - bbox.min.y
  IN [x |-> IF width > 0 THEN [n |-> localPoint.x - bbox.min.x, d |-> width]
            ELSE Half,
      y |-> IF height > 0 THEN [n |-> localPoint.y - bbox.min.y, d |-> height]
            ELSE Half]

\* variant: the normalized coordinate is taken from the centre of the
\* bounding box instead of its minimum corner
normalizedToWorld_mut(normalized, shape) ==
  LET bbox == boundingBox(shape)
      width == bbox.max.x - bbox.min.x
      height == bbox.max.y - bbox.min.y
      localX == SDiv(normalized.x.n * width, normalized.x.d)
      localY == SDiv(normalized.y.n * height, normalized.y.d)
  IN localToWorld(shape, Pt(localX, localY))

normalizedToWorld(normalized, shape) ==
  LET bbox == boundingBox(shape)
      width == bbox.max.x - bbox.min.x
      height == bbox.max.y - bbox.min.y
      localX == bbox.min.x + SDiv(normalized.x.n * width, normalized.x.d)
      localY == bbox.min.y + SDiv(normalized.y.n * height, normalized.y.d)
  IN localToWorld(shape, Pt(localX, localY))

Attachment(sh, point, shapeId) ==
  IF shapeId # "undefined" /\ IsMesh(sh, shapeId)
  THEN <<[shapeId |-> shapeId,
          localPoint |-> worldToLocal(point, sh[shapeId]),
          localNormalized |->
            getNormalizedCoordinates(worldToLocal(point, sh[shapeId]),
                                     sh[shapeId])]>>
  ELSE <<>>

\* Set.add on the entry of a shape, created when missing
AddToShape(map, att, measurementId) ==
  IF att = <<>> THEN map
  ELSE LET k == att[1].shapeId
           old == IF k \in DOMAIN map THEN map[k] ELSE {}
       IN [j \in DOMAIN map \cup {k} |->
             IF j = k THEN old \cup {measurementId} ELSE map[j]]

\* the two maps after attachMeasurementToShapes
attachMeasurementToShapes(tmap, smap, sh, measurementId, startPoint, endPoint, startShapeId, endShapeId) ==
  LET startAttachment == Attachment(sh, startPoint, startShapeId)
      endAttachment == Attachment(sh, endPoint, endShapeId)
      tracking == [startAttachment |-> startAttachment,
                   endAttachment |-> endAttachment]
  IN [measurementTrackingMap |->
        [j \in DOMAIN tmap \cup {measurementId} |->
           IF j = measurementId THEN tracking ELSE tmap[j]],
      shapeToMeasurementsMap |->
        AddToShape(AddToShape(smap, startAttachment, measurementId),
                   endAttachment, measurementId)]

\* measurementManager.updateMeasurementPoints
updateMeasurementPoints(m, newStart, newEnd) ==
  [m EXCEPT !.startPoint = newStart, !.endPoint = newEnd,
            !.distanceSq = DistSq(newStart, newEnd)]

IsAttachedTo(att, shapeId) == att # <<>> /\ att[1].shapeId = shapeId

\* the measurement collection after updateMeasurementsForShape(shapeId)
updateMeasurementsForShape(ms, tmap, smap, sh, shapeId) ==
  IF shapeId \notin DOMAIN smap \/ ~IsMesh(sh, shapeId) THEN ms
  ELSE [i \in 1..Len(ms) |->
          LET m == ms[i] IN
          IF m.id \notin smap[shapeId] \/ m.id \notin DOMAIN tmap THEN m
          ELSE LET tracking == tmap[m.id]
                   newStartPoint ==
                     IF IsAttachedTo(tracking.startAttachment, shapeId)
                     THEN normalizedToWorld(
                            tracking.startAttachment[1].localNormalized,
                            sh[shapeId])
                     ELSE m.startPoint
                   newEndPoint ==
                     IF IsAttachedTo(tracking.endAttachment, shapeId)
                     THEN normalizedToWorld(
                            tracking.endAttachment[1].localNormalized,
                            sh[shapeId])
                     ELSE m.endPoint
               IN IF IsAttachedTo(tracking.startAttachment, shapeId)
                     \/ IsAttachedTo(tracking.endAttachment, shapeId)
                  THEN updateMeasurementPoints(m, newStartPoint, newEndPoint)
                  ELSE m]

\* shapeToMeasurementsMap after detachMeasurement(measurementId)
detachFromShapes(tmap, smap, measurementId) ==
  IF measurementId \notin DOMAIN tmap THEN smap
  ELSE [k \in DOMAIN smap |->
          IF IsAttachedTo(tmap[measurementId].startAttachment, k)
             \/ IsAttachedTo(tmap[measurementId].endAttachment, k)
          THEN smap[k] \ {measurementId} ELSE smap[k]]

\* variant: the tracking entry is kept
detachFromTracking_mut(tmap, measurementId) == tmap

\* measurementTrackingMap after detachMeasurement(measurementId)
detachFromTracking(tmap, measurementId) ==
  [j \in DOMAIN tmap \ {measurementId} |-> tmap[j]]

-----------------------------------------------------------------------------
(* measurementManager.ts *)

\* variant: the cached distance is off by one unit
addMeasurement_mut(id, start, end, dimensionOffset) ==
  [id |-> id, startPoint |-> start, endPoint |-> end,
   distanceSq |-> DistSq(start, end) + 1, dimensionOffset |-> dimensionOffset,
   labelOffset |-> defaultLabelOffset]

addMeasurement(id, start, end, dimensionOffset) ==
  [id |-> id, startPoint |-> start, endPoint |-> end,
   distanceSq |-> DistSq(start, end), dimensionOffset |-> dimensionOffset,
   labelOffset |-> defaultLabelOffset]

\* variant: nothing is removed
removeMeasurement_mut(ms, id) == ms

\* measurements.filter((m) => m.id !== id)
removeMeasurement(ms, id) == SelectSeq(ms, LAMBDA m : m.id # id)

MeasurementIds(ms) == {ms[i].id : i \in 1..Len(ms)}

getMeasurementById(ms, id) ==
  IF id \in MeasurementIds(ms)
  THEN <<ms[CHOOSE i \in 1..Len(ms) : ms[i].id = id]>> ELSE <<>>

-----------------------------------------------------------------------------
(* alignmentDetection.ts, alignmentSnapping.ts *)

\* snap threshold of the alignment guides, 0.5 m
alignmentSnapThreshold == 50

SetMin(S) == CHOOSE v \in S : \A w \in S : v <= w
SetMax(S) == CHOOSE v \in S : \A w \in S : v >= w

getShapeBounds(shape) ==
  LET bbox == boundingBox(shape)
      worldCorners == {localToWorld(shape, Pt(bbox.min.x, bbox.min.y)),
                       localToWorld(shape, Pt(bbox.max.x, bbox.min.y)),
                       localToWorld(shape, Pt(bbox.max.x, bbox.max.y)),
                       localToWorld(shape, Pt(bbox.min.x, bbox.max.y))}
  IN [centerX |-> shape.position.x, centerY |-> shape.position.y,
      left |-> SetMin({c.x : c \in worldCorners}),
      right |-> SetMax({c.x : c \in worldCorners}),
      bottom |-> SetMin({c.y : c \in worldCorners}),
      top |-> SetMax({c.y : c \in worldCorners})]

Candidate(type, targetShape, value, dist) ==
  [type |-> type, targetShape |-> targetShape, alignmentValue |-> value,
   distance |-> dist]

\* variant: a difference equal to the threshold is accepted too
candidatesFor_mut(d, t, targetShape, threshold) ==
  LET all == <<Candidate("center-x", targetShape, t.centerX, Abs(d.centerX - t.centerX)),
               Candidate("center-y", targetShape, t.centerY, Abs(d.centerY - t.centerY)),
               Candidate("edge-left", targetShape, t.left, Abs(d.left - t.left)),
               Candidate("edge-right", targetShape, t.right, Abs(d.right - t.right)),
               Candidate("edge-top", targetShape, t.top, Abs(d.top - t.top)),
               Candidate("edge-bottom", targetShape, t.bottom, Abs(d.bottom - t.bottom)),
               Candidate("edge-left-to-right", targetShape, t.right, Abs(d.left - t.right)),
               Candidate("edge-right-to-left", targetShape, t.left, Abs(d.right - t.left)),
               Candidate("edge-top-to-bottom", targetShape, t.bottom, Abs(d.top - t.bottom)),
               Candidate("edge-bottom-to-top", targetShape, t.top, Abs(d.bottom - t.top))>>
  IN SelectSeq(all, LAMBDA c : c.distance <= threshold)

\* the candidates one target shape contributes, in the order they are pushed
candidatesFor(d, t, targetShape, threshold) ==
  LET all == <<Candidate("center-x", targetShape, t.centerX, Abs(d.centerX - t.centerX)),
               Candidate("center-y", targetShape, t.centerY, Abs(d.centerY - t.centerY)),
               Candidate("edge-left", targetShape, t.left, Abs(d.left - t.left)),
               Candidate("edge-right", targetShape, t.right, Abs(d.right - t.right)),
               Candidate("edge-top", targetShape, t.top, Abs(d.top - t.top)),
               Candidate("edge-bottom", targetShape, t.bottom, Abs(d.bottom - t.bottom)),
               Candidate("edge-left-to-right", targetShape, t.right, Abs(d.left - t.right)),
               Candidate("edge-right-to-left", targetShape, t.left, Abs(d.right - t.left)),
               Candidate("edge-top-to-bottom", targetShape, t.bottom, Abs(d.top - t.bottom)),
               Candidate("edge-bottom-to-top", targetShape, t.top, Abs(d.bottom - t.top))>>
  IN SelectSeq(all, LAMBDA c : c.distance < threshold)

\* Array.prototype.sort by distance (stable)
RECURSIVE insertByDistance(_, _)
insertByDistance(sorted, c) ==
  IF sorted = <<>> THEN <<c>>
  ELSE IF c.distance < Head(sorted).distance THEN <<c>> \o sorted
  ELSE <<Head(sorted)>> \o insertByDistance(Tail(sorted), c)

RECURSIVE sortByDistance(_)
sortByDistance(cs) ==
  IF cs = <<>> THEN <<>>
  ELSE insertByDistance(sortByDistance(SubSeq(cs, 1, Len(cs) - 1)),
                        cs[Len(cs)])

RECURSIVE candidatesFrom(_, _, _, _, _)
candidatesFrom(sh, draggedId, d, threshold, i) ==
  IF i > Len(sceneOrder) THEN <<>>
  ELSE LET id == sceneOrder[i]
       IN (IF IsMesh(sh, id) /\ id # draggedId
           THEN candidatesFor(d, getShapeBounds(sh[id]), id, threshold)
           ELSE <<>>)
          \o candidatesFrom(sh, draggedId, d, threshold, i + 1)

\* sh holds the dragged shape at its proposed position
findAlignmentCandidates(sh, draggedId, threshold) ==
  sortByDistance(candidatesFrom(sh, draggedId, getShapeBounds(sh[draggedId]),
                                threshold, 1))

VerticalTypes == {"center-x", "edge-left", "edge-right",
                  "edge-left-to-right", "edge-right-to-left"}
HorizontalTypes == {"center-y", "edge-top", "edge-bottom",
                    "edge-top-to-bottom", "edge-bottom-to-top"}

\* the loop of getBestAlignments: the first candidate of each family is
\* kept, and the loop stops when both are found
RECURSIVE bestLoop(_, _, _, _)
bestLoop(candidates, i, horizontal, vertical) ==
  IF i > Len(candidates) \/ (horizontal # <<>> /\ vertical # <<>>)
  THEN [horizontal |-> horizontal, vertical |-> vertical]
  ELSE bestLoop(candidates, i + 1,
                IF horizontal = <<>> /\ candidates[i].type \in HorizontalTypes
                THEN <<candidates[i]>> ELSE horizontal,
                IF vertical = <<>> /\ candidates[i].type \in VerticalTypes
                THEN <<candidates[i]>> ELSE vertical)

\* variant: both guides are the closest candidate, whatever its family
getBestAlignments_mut(candidates) ==
  [horizontal |-> IF candidates = <<>> THEN <<>> ELSE <<Head(candidates)>>,
   vertical |-> IF candidates = <<>> THEN <<>> ELSE <<Head(candidates)>>]

getBestAlignments(candidates) ==
  bestLoop(candidates, 1, <<>>, <<>>)

\* variant: a right edge is aligned as if it were the left edge
applyAlignmentSnap_mut(draggedShape, desiredPosition, horizontal, vertical) ==
  LET b == getShapeBounds(draggedShape)
      centerOffsetX == draggedShape.position.x - b.centerX
      centerOffsetY == draggedShape.position.y - b.centerY
      snapX ==
        IF vertical = <<>> THEN desiredPosition.x
        ELSE LET targetX == vertical[1].alignmentValue
             IN CASE vertical[1].type = "center-x" -> targetX + centerOffsetX
                  [] vertical[1].type \in {"edge-left", "edge-left-to-right"} ->
                       targetX + (draggedShape.position.x - b.left)
                  [] vertical[1].type \in {"edge-right", "edge-right-to-left"} ->
                       targetX + (draggedShape.position.x - b.left)
      snapY ==
        IF horizontal = <<>> THEN desiredPosition.y
        ELSE LET targetY == horizontal[1].alignmentValue
             IN CASE horizontal[1].type = "center-y" -> targetY + centerOffsetY
                  [] horizontal[1].type \in {"edge-top", "edge-top-to-bottom"} ->
                       targetY + (draggedShape.position.y - b.top)
                  [] horizontal[1].type \in {"edge-bottom", "edge-bottom-to-top"} ->
                       targetY + (draggedShape.position.y - b.bottom)
  IN Pt(snapX, snapY)

\* draggedShape is the shape at desiredPosition
applyAlignmentSnap(draggedShape, desiredPosition, horizontal, vertical) ==
  LET b == getShapeBounds(draggedShape)
      centerOffsetX == draggedShape.position.x - b.centerX
      centerOffsetY == draggedShape.position.y - b.centerY
      snapX ==
        IF vertical = <<>> THEN desiredPosition.x
        ELSE LET targetX == vertical[1].alignmentValue
             IN CASE vertical[1].type = "center-x" -> targetX + centerOffsetX
                  [] vertical[1].type \in {"edge-left", "edge-left-to-right"} ->
                       targetX + (draggedShape.position.x - b.left)
                  [] vertical[1].type \in {"edge-right", "edge-right-to-left"} ->
                       targetX + (draggedShape.position.x - b.right)
      snapY ==
        IF horizontal = <<>> THEN desiredPosition.y
        ELSE LET targetY == horizontal[1].alignmentValue
             IN CASE horizontal[1].type = "center-y" -> targetY + centerOffsetY
                  [] horizontal[1].type \in {"edge-top", "edge-top-to-bottom"} ->
                       targetY + (draggedShape.position.y - b.top)
                  [] horizontal[1].type \in {"edge-bottom", "edge-bottom-to-top"} ->
                       targetY + (draggedShape.position.y - b.bottom)
  IN Pt(snapX, snapY)

-----------------------------------------------------------------------------
(* Initial state: the modules as loaded, with the two shapes drawn *)

NoPlaneResize ==
  [activePlaneHandleRole |-> "null", initialPlaneCenter |-> Pt(0, 0),
   initialWidth |-> 100, initialHeight |-> 100,
   initialMouseLocal |-> Pt(0, 0), meshUnitPositionCache |-> FALSE]

NoCircleResize ==
  [activeCircleHandleRole |-> "null", initialEllipseCenter |-> Pt(0, 0),
   initialRadiusX |-> 100, initialRadiusY |-> 100,
   initialMouseLocal |-> Pt(0, 0), meshUnitPositionCache |-> FALSE]

NoRotate ==
  [isRotating |-> FALSE, initialRotation |-> 0, initialMouseAngle |-> 0,
   hasInitialAngle |-> FALSE, objectCenter |-> Pt(0, 0)]

NoLabelDrag ==
  [isDraggingLabel |-> FALSE, dragStartMousePosition |-> <<>>,
   initialDimensionOffset |-> 0, initialLabelOffset |-> defaultLabelOffset]

EmptyMap == [j \in {} |-> {}]

InitModules ==
  /\ measureMode = FALSE
  /\ activeMeasurementId = 0
  /\ storeActiveMeasurementId = 0
  /\ snapToPoints = TRUE
  /\ allowFreeMeasurement = TRUE
  /\ firstPoint = <<>>
  /\ secondPoint = <<>>
  /\ currentSnapPoint = <<>>
  /\ previewDimensionOffset = initialPreviewDimensionOffset
  /\ firstPointShapeUuid = "undefined"
  /\ secondPointShapeUuid = "undefined"
  /\ secondClickPosition = <<>>
  /\ shapes = InitialShapes
  /\ isDraggingSelectedObject = FALSE
  /\ selectedObjectOffset = Pt(0, 0)
  /\ activeResizeHandle = "null"
  /\ activeResizeKind = "null"
  /\ planeResize = NoPlaneResize
  /\ circleResize = NoCircleResize
  /\ planeRotate = NoRotate
  /\ circleRotate = NoRotate
  /\ labelDrag = NoLabelDrag
  /\ clickA = <<>>
  /\ lastEvent = "init"
  /\ gestureCount = 0

\* no function of the engine is being looked at on its own
NoCall ==
  /\ probe = <<>>
  /\ returned = <<>>

\* the application after load, with the two drawn shapes
InitIdle ==
  /\ InitModules
  /\ selected = "null"
  /\ measurements = <<>>
  /\ nextMeasurementId = 1
  /\ measurementTrackingMap = EmptyMap
  /\ shapeToMeasurementsMap = EmptyMap

Init ==
  /\ InitIdle
  /\ NoCall

-----------------------------------------------------------------------------
(* measureTool.ts: mode, settings, move and click handlers *)

ResetClickState ==
  /\ firstPoint' = <<>>
  /\ secondPoint' = <<>>
  /\ currentSnapPoint' = <<>>
  /\ secondClickPosition' = <<>>
  /\ firstPointShapeUuid' = "undefined"
  /\ secondPointShapeUuid' = "undefined"
  /\ previewDimensionOffset' = defaultDimensionOffset
  /\ clickA' = <<>>

startMeasureMode ==
  /\ measureMode' = TRUE
  /\ ResetClickState

\* variant: leaving measure mode keeps the recorded clicks
exitMeasureMode_mut ==
  /\ measureMode' = FALSE
  /\ UNCHANGED <<firstPoint, secondPoint, currentSnapPoint,
                 secondClickPosition, firstPointShapeUuid,
                 secondPointShapeUuid, previewDimensionOffset, clickA>>

exitMeasureMode ==
  /\ measureMode' = FALSE
  /\ ResetClickState

\* App.tsx: the measure button
HandleMeasureToggle ==
  /\ IF measureMode THEN exitMeasureMode ELSE startMeasureMode
  /\ lastEvent' = "toggle"
  /\ UNCHANGED <<callVars, gestureCount, snapToPoints, allowFreeMeasurement,
                 managerVars, trackingVars, sceneVars, moduleVars, dragVars, labelDrag>>

SetAllowFreeMeasurement(enabled) ==
  /\ allowFreeMeasurement' = enabled
  /\ lastEvent' = "setting"
  /\ UNCHANGED <<callVars, gestureCount, measureMode, snapToPoints, firstPoint,
                 secondPoint, currentSnapPoint, previewDimensionOffset, firstPointShapeUuid,
                 secondPointShapeUuid, secondClickPosition, clickA,
                 managerVars, trackingVars, sceneVars, moduleVars, dragVars,
                 labelDrag>>

\* variant: the free position is used whatever the setting
ResolvedPoint_mut(mouseWorldPos) ==
  LET snap == getBestSnap(mouseWorldPos)
  IN IF snap # <<>> THEN <<snap[1].position>> ELSE <<mouseWorldPos>>

\* the point a click or a move resolves to in states 1 and 2
ResolvedPoint(mouseWorldPos) ==
  LET snap == getBestSnap(mouseWorldPos)
  IN IF snap # <<>> THEN <<snap[1].position>>
     ELSE IF allowFreeMeasurement THEN <<mouseWorldPos>>
     ELSE <<>>

handleMeasureMouseMove(m) ==
  /\ UNCHANGED <<snapToPoints, allowFreeMeasurement, firstPoint, secondPoint,
                 firstPointShapeUuid, secondPointShapeUuid,
                 secondClickPosition, clickA>>
  /\ IF ~measureMode \/ m = <<>>
     THEN UNCHANGED <<currentSnapPoint, previewDimensionOffset>>
     ELSE IF firstPoint = <<>> \/ secondPoint = <<>>
     THEN /\ currentSnapPoint' = ResolvedPoint(m[1])
          /\ UNCHANGED previewDimensionOffset
     ELSE /\ currentSnapPoint' = m
          /\ previewDimensionOffset' =
               clampDimensionOffset(
                 calculateDimensionOffset(firstPoint[1], secondPoint[1], m[1]),
                 maxOffset)

\* handleClick of the canvas, forwarding to handleMeasureClick
HandleMeasureClick(m) ==
  LET snap == IF m = <<>> THEN <<>> ELSE getBestSnap(m[1])
      resolved == IF m = <<>> THEN <<>> ELSE ResolvedPoint(m[1])
  IN
  /\ UNCHANGED <<callVars, gestureCount, measureMode, snapToPoints,
                 allowFreeMeasurement, sceneVars, moduleVars, dragVars, labelDrag, activeMeasurementId,
                 storeActiveMeasurementId>>
  /\ IF ~measureMode \/ m = <<>>
     THEN /\ lastEvent' = "noop"
          /\ UNCHANGED <<firstPoint, secondPoint, currentSnapPoint,
                         previewDimensionOffset, firstPointShapeUuid,
                         secondPointShapeUuid, secondClickPosition, clickA,
                         measurements, nextMeasurementId, trackingVars>>
     ELSE IF (firstPoint = <<>> \/ secondPoint = <<>>) /\ resolved = <<>>
     THEN /\ lastEvent' = "ignored"
          /\ UNCHANGED <<firstPoint, secondPoint, currentSnapPoint,
                         previewDimensionOffset, firstPointShapeUuid,
                         secondPointShapeUuid, secondClickPosition, clickA,
                         measurements, nextMeasurementId, trackingVars>>
     ELSE IF firstPoint = <<>>
     THEN /\ currentSnapPoint' = resolved
          /\ firstPoint' = <<clampToCanvasBounds(resolved[1])>>
          /\ secondClickPosition' = <<>>
          /\ firstPointShapeUuid' = findShapeUuidFromSnap(snap)
          /\ clickA' = resolved
          /\ lastEvent' = "click1"
          /\ UNCHANGED <<secondPoint, previewDimensionOffset,
                         secondPointShapeUuid, measurements,
                         nextMeasurementId, trackingVars>>
     ELSE IF secondPoint = <<>>
     THEN IF IsTooShort(firstPoint[1], resolved[1])
          THEN /\ currentSnapPoint' = resolved
               /\ lastEvent' = "rejected"
               /\ UNCHANGED <<firstPoint, secondPoint, previewDimensionOffset,
                              firstPointShapeUuid, secondPointShapeUuid,
                              secondClickPosition, clickA, measurements,
                              nextMeasurementId, trackingVars>>
          ELSE /\ currentSnapPoint' = resolved
               /\ secondPoint' = <<clampToCanvasBounds(resolved[1])>>
               /\ secondClickPosition' = resolved
               /\ previewDimensionOffset' = defaultDimensionOffset
               /\ secondPointShapeUuid' = findShapeUuidFromSnap(snap)
               /\ lastEvent' = "click2"
               /\ UNCHANGED <<firstPoint, firstPointShapeUuid, clickA,
                              measurements, nextMeasurementId, trackingVars>>
     ELSE IF secondClickPosition # <<>>
     THEN LET finalOffset ==
                IF DistLess(m[1], secondClickPosition[1], SAME_POINT_TOLERANCE)
                THEN 0
                ELSE clampDimensionOffset(previewDimensionOffset, maxOffset)
              measurement == addMeasurement(nextMeasurementId, firstPoint[1],
                                            secondPoint[1], finalOffset)
              maps == attachMeasurementToShapes(
                        measurementTrackingMap, shapeToMeasurementsMap, shapes,
                        measurement.id, firstPoint[1], secondPoint[1],
                        firstPointShapeUuid, secondPointShapeUuid)
          IN /\ Len(measurements) < MaxMeasurements
             /\ measurements' = Append(measurements, measurement)
             /\ nextMeasurementId' = nextMeasurementId + 1
             /\ measurementTrackingMap' = maps.measurementTrackingMap
             /\ shapeToMeasurementsMap' = maps.shapeToMeasurementsMap
             /\ ResetClickState
             /\ lastEvent' = "click3"
     ELSE /\ lastEvent' = "noop"
          /\ UNCHANGED <<firstPoint, secondPoint, currentSnapPoint,
                         previewDimensionOffset, firstPointShapeUuid,
                         secondPointShapeUuid, secondClickPosition, clickA,
                         measurements, nextMeasurementId, trackingVars>>

-----------------------------------------------------------------------------
(* measurementInteraction.ts: label drag *)

setActiveMeasurementId(id) ==
  /\ storeActiveMeasurementId' = id
  /\ activeMeasurementId' = id

deselectMeasurement ==
  /\ activeMeasurementId' = 0
  /\ storeActiveMeasurementId' = 0

beginLabelDrag(measurementId, m) ==
  LET measurement == getMeasurementById(measurements, measurementId)
  IN IF measurement = <<>>
     THEN UNCHANGED <<activeMeasurementId, storeActiveMeasurementId, labelDrag>>
     ELSE /\ setActiveMeasurementId(measurementId)
          /\ IF m = <<>> THEN UNCHANGED labelDrag
             ELSE labelDrag' =
                    [isDraggingLabel |-> TRUE,
                     dragStartMousePosition |-> m,
                     initialDimensionOffset |-> measurement[1].dimensionOffset,
                     initialLabelOffset |->
                       IF measurement[1].labelOffset = 0
                       THEN defaultLabelOffset
                       ELSE measurement[1].labelOffset]

\* measurementManager.updateMeasurementOffset: the offset is stored as given
updateMeasurementOffset(ms, id, newOffset) ==
  [i \in 1..Len(ms) |->
     IF ms[i].id = id THEN [ms[i] EXCEPT !.dimensionOffset = newOffset]
     ELSE ms[i]]

\* Math.max(0.1, Math.min(0.9, v)), in percent
clampLabelOffset(v) == Max(10, Min(90, v))

\* variant: the label offset is written to every measurement
updateMeasurementLabelOffset_mut(ms, id, newLabelOffset) ==
  [i \in 1..Len(ms) |->
     [ms[i] EXCEPT !.labelOffset = clampLabelOffset(newLabelOffset)]]

\* measurementManager.updateMeasurementLabelOffset keeps the label between
\* 10 % and 90 % of the line
updateMeasurementLabelOffset(ms, id, newLabelOffset) ==
  [i \in 1..Len(ms) |->
     IF ms[i].id = id
     THEN [ms[i] EXCEPT !.labelOffset = clampLabelOffset(newLabelOffset)]
     ELSE ms[i]]

\* the collection after updateLabelDrag moved the active measurement
updateLabelDrag(m) ==
  LET active == getMeasurementById(measurements, activeMeasurementId)
  IN IF active = <<>> \/ labelDrag.dragStartMousePosition = <<>> \/ m = <<>>
     THEN UNCHANGED measurements
     ELSE LET startPoint == active[1].startPoint
              endPoint == active[1].endPoint
              dx == endPoint.x - startPoint.x
              dy == endPoint.y - startPoint.y
              lenSq == dx * dx + dy * dy
              len == ISqrt(lenSq)
              mx == m[1].x - labelDrag.dragStartMousePosition[1].x
              my == m[1].y - labelDrag.dragStartMousePosition[1].y
              perpendicularMovement ==
                IF len = 0 THEN 0 ELSE SDiv(mx * (-dy) + my * dx, len)
              labelOffsetChange ==
                IF len = 0 THEN 0 ELSE SDiv(100 * (mx * dx + my * dy), lenSq)
              newDimensionOffset ==
                clampDimensionOffset(
                  labelDrag.initialDimensionOffset + perpendicularMovement,
                  maxOffset)
              newLabelOffset == labelDrag.initialLabelOffset + labelOffsetChange
          IN measurements' =
               updateMeasurementLabelOffset(
                 updateMeasurementOffset(measurements, activeMeasurementId,
                                         newDimensionOffset),
                 activeMeasurementId, newLabelOffset)

\* setActiveMeasurementOffset: the offset of the active measurement is set
\* directly
SetActiveMeasurementOffset(offset) ==
  /\ measurements' =
       IF getMeasurementById(measurements, activeMeasurementId) = <<>>
       THEN measurements
       ELSE updateMeasurementOffset(measurements, activeMeasurementId, offset)
  /\ lastEvent' = "offset"
  /\ UNCHANGED <<callVars, gestureCount, measureMode, measureToolVars,
                 activeMeasurementId, storeActiveMeasurementId,
                 nextMeasurementId, trackingVars, sceneVars, moduleVars,
                 dragVars, labelDrag>>

-----------------------------------------------------------------------------
(* resizeFromLabel.ts and the label edit of measurementInteraction.ts *)

\* the optional fields shapeUuid, geometryType and planeMeasureRole of a
\* Measurement; addMeasurement leaves them out
HasShapeLink(measurement) ==
  {"shapeUuid", "geometryType"} \subseteq DOMAIN measurement

\* the scene after resizeShapeLive, or none when it returns before resizing;
\* the meta of a plane is its current centre, width and height
resizeShapeLive(sh, measurement, newDistance) ==
  IF ~HasShapeLink(measurement) \/ measurement.geometryType # "plane"
     \/ measurement.shapeUuid \notin DOMAIN sh
  THEN <<>>
  ELSE LET id == measurement.shapeUuid
           oldWidth == 2 * sh[id].halfWidth
           oldHeight == 2 * sh[id].halfHeight
           oldCenter == sh[id].position
           role == IF "planeMeasureRole" \in DOMAIN measurement
                   THEN measurement.planeMeasureRole ELSE "undefined"
       IN IF sh[id].kind # "plane" THEN <<>>
          ELSE IF role = "width-left-anchored"
          THEN LET oldLeft == oldCenter.x - SDiv(oldWidth, 2)
               IN <<[sh EXCEPT
                       ![id].halfWidth = SDiv(newDistance, 2),
                       ![id].position = Pt(oldLeft + SDiv(newDistance, 2),
                                           oldCenter.y)]>>
          ELSE IF role = "height-bottom-anchored"
          THEN LET oldBottom == oldCenter.y - SDiv(oldHeight, 2)
               IN <<[sh EXCEPT
                       ![id].halfHeight = SDiv(newDistance, 2),
                       ![id].position = Pt(oldCenter.x,
                                           oldBottom + SDiv(newDistance, 2))]>>
          ELSE <<>>

\* variant: the cached distance is left as it was
movedEnd_mut(measurement, newDistanceMeters) ==
  LET dx == measurement.endPoint.x - measurement.startPoint.x
      dy == measurement.endPoint.y - measurement.startPoint.y
      len == ISqrt(dx * dx + dy * dy)
  IN [measurement EXCEPT
        !.endPoint = Pt(measurement.startPoint.x
                          + SDiv(dx * newDistanceMeters, len),
                        measurement.startPoint.y
                          + SDiv(dy * newDistanceMeters, len))]

\* measurementManager.updateMeasurementDistance, the part on the
\* measurement: the end point is moved along the line to the new length
movedEnd(measurement, newDistanceMeters) ==
  LET dx == measurement.endPoint.x - measurement.startPoint.x
      dy == measurement.endPoint.y - measurement.startPoint.y
      len == ISqrt(dx * dx + dy * dy)
  IN [measurement EXCEPT
        !.endPoint = Pt(measurement.startPoint.x
                          + SDiv(dx * newDistanceMeters, len),
                        measurement.startPoint.y
                          + SDiv(dy * newDistanceMeters, len)),
        !.distanceSq = newDistanceMeters * newDistanceMeters]

\* the commit of handleLabelDoubleClick: updateMeasurementDistance, which
\* calls resizeShapeLive for a measurement linked to a shape
EditLabel(measurementId, newMeters) ==
  LET found == getMeasurementById(measurements, measurementId)
      moved == [i \in 1..Len(measurements) |->
                  IF measurements[i].id = measurementId
                  THEN movedEnd(measurements[i], newMeters)
                  ELSE measurements[i]]
      resized == resizeShapeLive(shapes, found[1], newMeters)
  IN
  /\ found # <<>>
  /\ UNCHANGED <<callVars, gestureCount, measureMode, measureToolVars,
                 activeMeasurementId, storeActiveMeasurementId,
                 nextMeasurementId, trackingVars, selected, moduleVars,
                 dragVars, labelDrag>>
  /\ IF newMeters <= 0 \/ found[1].startPoint = found[1].endPoint
     THEN /\ lastEvent' = "noop"
          /\ UNCHANGED <<measurements, shapes>>
     ELSE /\ lastEvent' = "edit"
          /\ IF resized = <<>>
             THEN /\ measurements' = moved
                  /\ UNCHANGED shapes
             ELSE /\ shapes' = resized[1]
                  /\ measurements' =
                       updateMeasurementsForShape(
                         moved, measurementTrackingMap,
                         shapeToMeasurementsMap, resized[1],
                         found[1].shapeUuid)

-----------------------------------------------------------------------------
(* planeResize.ts, circleResize.ts, planeRotate.ts, circleRotate.ts *)

\* the pointer in the frame of the shape: relative to the centre captured
\* at begin, turned back by the current rotation
MouseLocal(m, center, rotation) ==
  LET relativeX == m.x - center.x
      relativeY == m.y - center.y
  IN Pt(relativeX * Cos(rotation) + relativeY * Sin(rotation),
        relativeY * Cos(rotation) - relativeX * Sin(rotation))

\* the shapes of a session stay in view: centre and half extents within
\* MaxCoord
InView(shape) ==
  /\ shape.position.x \in 0..MaxCoord
  /\ shape.position.y \in 0..MaxCoord
  /\ shape.halfWidth <= MaxCoord
  /\ shape.halfHeight <= MaxCoord

\* variant: the extent is the offset of the pointer, not twice the offset
planeExtent_mut(localOffset) == Max(localOffset, minPlaneExtent)

\* Math.max(localOffset * 2, 0.2): the handle measures the half extent
planeExtent(localOffset) == Max(localOffset * 2, minPlaneExtent)

\* variant: the shift key is ignored
uniformScale_mut(initialOther, newExtent, initialExtent) == initialOther

\* initialOther * scaleRatio, with scaleRatio = newExtent / initialExtent
uniformScale(initialOther, newExtent, initialExtent) ==
  SDiv(initialOther * newExtent, initialExtent)

beginPlaneResize(role) ==
  IF ~IsMesh(shapes, selected) THEN UNCHANGED planeResize
  ELSE LET bbox == boundingBox(shapes[selected])
           w == bbox.max.x - bbox.min.x
           h == bbox.max.y - bbox.min.y
       IN planeResize' =
            [activePlaneHandleRole |-> role,
             initialPlaneCenter |-> shapes[selected].position,
             initialWidth |-> IF w < 1 THEN flatExtent ELSE w,
             initialHeight |-> IF h < 1 THEN flatExtent ELSE h,
             initialMouseLocal |-> Pt(0, 0),
             meshUnitPositionCache |-> TRUE]

updatePlaneResize(m, shift) ==
  IF \/ planeResize.activePlaneHandleRole = "null"
     \/ ~planeResize.meshUnitPositionCache
     \/ ~IsMesh(shapes, selected)
     \/ m = <<>>
  THEN UNCHANGED <<planeResize, shapes, measurements>>
  ELSE LET mouseLocal == MouseLocal(m[1], planeResize.initialPlaneCenter,
                                    shapes[selected].rotation)
       IN IF planeResize.initialMouseLocal = Pt(0, 0)
          THEN /\ planeResize' =
                    [planeResize EXCEPT !.initialMouseLocal = mouseLocal]
               /\ UNCHANGED <<shapes, measurements>>
          ELSE LET right == planeResize.activePlaneHandleRole = "plane-right"
                   newWidth ==
                     IF right THEN planeExtent(Abs(mouseLocal.x))
                     ELSE IF shift
                     THEN uniformScale(planeResize.initialWidth,
                                       planeExtent(Abs(mouseLocal.y)),
                                       planeResize.initialHeight)
                     ELSE planeResize.initialWidth
                   newHeight ==
                     IF ~right THEN planeExtent(Abs(mouseLocal.y))
                     ELSE IF shift
                     THEN uniformScale(planeResize.initialHeight,
                                       planeExtent(Abs(mouseLocal.x)),
                                       planeResize.initialWidth)
                     ELSE planeResize.initialHeight
                   newShapes ==
                     [shapes EXCEPT ![selected].halfWidth = SDiv(newWidth, 2),
                                    ![selected].halfHeight = SDiv(newHeight, 2)]
               IN /\ InView(newShapes[selected])
                  /\ shapes' = newShapes
                  /\ measurements' =
                       updateMeasurementsForShape(
                         measurements, measurementTrackingMap,
                         shapeToMeasurementsMap, newShapes, selected)
                  /\ UNCHANGED planeResize

endPlaneResize ==
  [planeResize EXCEPT !.activePlaneHandleRole = "null",
                      !.meshUnitPositionCache = FALSE,
                      !.initialMouseLocal = Pt(0, 0)]

beginCircleResize(role) ==
  IF ~IsMesh(shapes, selected) THEN UNCHANGED circleResize
  ELSE LET bbox == boundingBox(shapes[selected])
           rx == SDiv(bbox.max.x - bbox.min.x, 2)
           ry == SDiv(bbox.max.y - bbox.min.y, 2)
       IN circleResize' =
            [activeCircleHandleRole |-> role,
             initialEllipseCenter |-> shapes[selected].position,
             initialRadiusX |-> IF rx < 1 THEN flatExtent ELSE rx,
             initialRadiusY |-> IF ry < 1 THEN flatExtent ELSE ry,
             initialMouseLocal |-> Pt(0, 0),
             meshUnitPositionCache |-> TRUE]

\* no call of updateMeasurementsForShape here
updateCircleResize(m, shift) ==
  IF \/ circleResize.activeCircleHandleRole = "null"
     \/ ~circleResize.meshUnitPositionCache
     \/ ~IsMesh(shapes, selected)
     \/ m = <<>>
  THEN UNCHANGED <<circleResize, shapes, measurements>>
  ELSE LET mouseLocal == MouseLocal(m[1], circleResize.initialEllipseCenter,
                                    shapes[selected].rotation)
       IN IF circleResize.initialMouseLocal = Pt(0, 0)
          THEN /\ circleResize' =
                    [circleResize EXCEPT !.initialMouseLocal = mouseLocal]
               /\ UNCHANGED <<shapes, measurements>>
          ELSE LET rxRole == circleResize.activeCircleHandleRole = "ellipse-rx"
                   newRadiusX ==
                     IF rxRole THEN Max(Abs(mouseLocal.x), minRadius)
                     ELSE IF shift
                     THEN uniformScale(circleResize.initialRadiusX,
                                       Max(Abs(mouseLocal.y), minRadius),
                                       circleResize.initialRadiusY)
                     ELSE circleResize.initialRadiusX
                   newRadiusY ==
                     IF ~rxRole THEN Max(Abs(mouseLocal.y), minRadius)
                     ELSE IF shift
                     THEN uniformScale(circleResize.initialRadiusY,
                                       Max(Abs(mouseLocal.x), minRadius),
                                       circleResize.initialRadiusX)
                     ELSE circleResize.initialRadiusY
                   newShapes ==
                     [shapes EXCEPT ![selected].halfWidth = newRadiusX,
                                    ![selected].halfHeight = newRadiusY]
               IN /\ InView(newShapes[selected])
                  /\ shapes' = newShapes
                  /\ UNCHANGED <<circleResize, measurements>>

endCircleResize ==
  [circleResize EXCEPT !.activeCircleHandleRole = "null",
                       !.meshUnitPositionCache = FALSE,
                       !.initialMouseLocal = Pt(0, 0)]

\* Math.atan2 in degrees, for a pointer on an axis through the centre
AxisAngle(dx, dy) ==
  CASE dy = 0 /\ dx >= 0 -> 0
    [] dx = 0 /\ dy > 0 -> 90
    [] dy = 0 /\ dx < 0 -> 180
    [] dx = 0 /\ dy < 0 -> -90

OnAxis(m, center) == m.x = center.x \/ m.y = center.y

\* Math.round(rotation / (PI / 12)) * (PI / 12), in degrees
snapAngle(d) == 15 * ((2 * d + 15) \div 30)

beginRotate ==
  [isRotating |-> TRUE,
   initialRotation |-> shapes[selected].rotation,
   initialMouseAngle |-> 0,
   hasInitialAngle |-> FALSE,
   objectCenter |-> shapes[selected].position]

beginPlaneRotate ==
  IF ~IsMesh(shapes, selected) THEN UNCHANGED planeRotate
  ELSE planeRotate' =
         [beginRotate EXCEPT !.initialMouseAngle = planeRotate.initialMouseAngle]

beginCircleRotate ==
  IF ~IsMesh(shapes, selected) THEN UNCHANGED circleRotate
  ELSE circleRotate' =
         [beginRotate EXCEPT
            !.initialMouseAngle = circleRotate.initialMouseAngle]

\* variant: the angle delta is snapped before the initial rotation is added
rotationAfter_mut(initialRotation, initialMouseAngle, currentMouseAngle, shiftKey) ==
  LET angleDelta == currentMouseAngle - initialMouseAngle
  IN IF shiftKey THEN initialRotation + snapAngle(angleDelta)
     ELSE initialRotation + angleDelta

\* mesh.rotation.z after a rotate update that applies, in degrees
rotationAfter(initialRotation, initialMouseAngle, currentMouseAngle, shiftKey) ==
  LET angleDelta == currentMouseAngle - initialMouseAngle
      raw == initialRotation + angleDelta
  IN IF shiftKey THEN snapAngle(raw) ELSE raw

\* the rotation set by a rotate update, kept in [0, 360)
RotatedTo(rot, m, shift) ==
  rotationAfter(rot.initialRotation, rot.initialMouseAngle,
                AxisAngle(m.x - rot.objectCenter.x, m.y - rot.objectCenter.y),
                shift) % 360

updatePlaneRotate(m, shift) ==
  IF ~planeRotate.isRotating \/ ~IsMesh(shapes, selected) \/ m = <<>>
  THEN UNCHANGED <<planeRotate, shapes, measurements>>
  ELSE /\ OnAxis(m[1], planeRotate.objectCenter)
       /\ IF ~planeRotate.hasInitialAngle
          THEN /\ planeRotate' =
                    [planeRotate EXCEPT
                       !.initialMouseAngle =
                          AxisAngle(m[1].x - planeRotate.objectCenter.x,
                                    m[1].y - planeRotate.objectCenter.y),
                       !.hasInitialAngle = TRUE]
               /\ UNCHANGED <<shapes, measurements>>
          ELSE LET newShapes ==
                     [shapes EXCEPT ![selected].rotation =
                                      RotatedTo(planeRotate, m[1], shift)]
               IN /\ shapes' = newShapes
                  /\ measurements' =
                       updateMeasurementsForShape(
                         measurements, measurementTrackingMap,
                         shapeToMeasurementsMap, newShapes, selected)
                  /\ UNCHANGED planeRotate

endPlaneRotate ==
  [planeRotate EXCEPT !.isRotating = FALSE, !.hasInitialAngle = FALSE,
                      !.initialMouseAngle = 0]

\* no call of updateMeasurementsForShape here
updateCircleRotate(m, shift) ==
  IF ~circleRotate.isRotating \/ ~IsMesh(shapes, selected) \/ m = <<>>
  THEN UNCHANGED <<circleRotate, shapes, measurements>>
  ELSE /\ OnAxis(m[1], circleRotate.objectCenter)
       /\ IF ~circleRotate.hasInitialAngle
          THEN /\ circleRotate' =
                    [circleRotate EXCEPT
                       !.initialMouseAngle =
                          AxisAngle(m[1].x - circleRotate.objectCenter.x,
                                    m[1].y - circleRotate.objectCenter.y),
                       !.hasInitialAngle = TRUE]
               /\ UNCHANGED <<shapes, measurements>>
          ELSE /\ shapes' = [shapes EXCEPT ![selected].rotation =
                                      RotatedTo(circleRotate, m[1], shift)]
               /\ UNCHANGED <<circleRotate, measurements>>

endCircleRotate ==
  [circleRotate EXCEPT !.isRotating = FALSE, !.hasInitialAngle = FALSE,
                       !.initialMouseAngle = 0]

-----------------------------------------------------------------------------
(* dragSelection.ts, selection.ts, deleteShape.ts: pointer and key handlers *)

\* the ray of the pointer meets the fill of the shape
InsideShape(sh, id, p) ==
  LET l == worldToLocal(p, sh[id])
      hw == sh[id].halfWidth
      hh == sh[id].halfHeight
  IN IF sh[id].kind = "circle"
     THEN LET a == (Abs(l.x) * hh) \div 1000
              b == (Abs(l.y) * hw) \div 1000
              c == (hw * hh) \div 1000
          IN Abs(l.x) <= hw /\ Abs(l.y) <= hh /\ a * a + b * b <= c * c
     ELSE Abs(l.x) <= hw /\ Abs(l.y) <= hh

Hit(type, id, role) == [type |-> type, id |-> id, role |-> role]

\* handles exist for the selected shape only
HandleRoles ==
  IF selected = "null" THEN {}
  ELSE IF shapes[selected].kind = "circle" THEN {"ellipse-rx", "ellipse-ry"}
  ELSE {"plane-right", "plane-top"}

\* what the label lookup and the raycast can report for a pointer position:
\* the label of a measurement, a handle of the selected shape, a shape
\* under the pointer, or nothing when no shape is under it
Hits(m) ==
  {Hit("label", "null", i) : i \in MeasurementIds(measurements)}
  \cup (IF selected = "null" THEN {} ELSE {Hit("rotate", "null", 0)})
  \cup {Hit("resize", r, 0) : r \in HandleRoles}
  \cup (IF m = <<>> THEN {}
        ELSE {Hit("shape", id, 0) :
                id \in {k \in DOMAIN shapes : InsideShape(shapes, k, m[1])}})
  \cup (IF m = <<>> \/ \A k \in DOMAIN shapes : ~InsideShape(shapes, k, m[1])
        THEN {Hit("none", "null", 0)} ELSE {})

beginSelectionDrag(hit, m) ==
  IF hit.type = "label"
  THEN /\ beginLabelDrag(hit.role, m)
       /\ UNCHANGED <<selected, dragVars, moduleVars>>
  ELSE
  /\ deselectMeasurement
  /\ UNCHANGED labelDrag
  /\ IF hit.type = "rotate"
     THEN /\ activeResizeHandle' = "rotate-handle"
          /\ isDraggingSelectedObject' = FALSE
          /\ UNCHANGED <<selected, selectedObjectOffset, planeResize,
                         circleResize>>
          /\ IF selected = "null"
             THEN UNCHANGED <<activeResizeKind, planeRotate, circleRotate>>
             ELSE IF shapes[selected].kind = "circle"
             THEN /\ activeResizeKind' = "rotate-circle"
                  /\ beginCircleRotate
                  /\ UNCHANGED planeRotate
             ELSE /\ activeResizeKind' = "rotate-plane"
                  /\ beginPlaneRotate
                  /\ UNCHANGED circleRotate
     ELSE IF hit.type = "resize"
     THEN /\ activeResizeHandle' = hit.id
          /\ isDraggingSelectedObject' = FALSE
          /\ UNCHANGED <<selected, selectedObjectOffset, planeRotate,
                         circleRotate>>
          /\ IF hit.id \in {"plane-right", "plane-top"}
             THEN /\ activeResizeKind' = "plane"
                  /\ beginPlaneResize(hit.id)
                  /\ UNCHANGED circleResize
             ELSE IF hit.id \in {"ellipse-rx", "ellipse-ry"}
             THEN /\ activeResizeKind' = "circle"
                  /\ beginCircleResize(hit.id)
                  /\ UNCHANGED planeResize
             ELSE /\ activeResizeKind' = "null"
                  /\ UNCHANGED <<planeResize, circleResize>>
     ELSE IF hit.type = "none"
     THEN /\ selected' = "null"
          /\ isDraggingSelectedObject' = FALSE
          /\ activeResizeHandle' = "null"
          /\ activeResizeKind' = "null"
          /\ UNCHANGED <<selectedObjectOffset, moduleVars>>
     ELSE /\ selected' = hit.id
          /\ selectedObjectOffset' =
               Pt(shapes[hit.id].position.x - m[1].x,
                  shapes[hit.id].position.y - m[1].y)
          /\ isDraggingSelectedObject' = TRUE
          /\ activeResizeHandle' = "null"
          /\ activeResizeKind' = "null"
          /\ UNCHANGED moduleVars

\* mousedown on the canvas with the select tool
PointerDown(hit, m) ==
  /\ hit \in Hits(m)
  /\ gestureCount < MaxGestures
  /\ gestureCount' = gestureCount + 1
  /\ lastEvent' = "down"
  /\ UNCHANGED <<callVars, measureMode, measureToolVars, trackingVars, measurements,
                 nextMeasurementId, shapes>>
  /\ IF measureMode
     THEN UNCHANGED <<activeMeasurementId, storeActiveMeasurementId, selected,
                      dragVars, moduleVars, labelDrag>>
     ELSE beginSelectionDrag(hit, m)

\* the drag branch of updateSelectionDrag: move the selected mesh, with
\* alignment snapping against the other meshes, then re-track
dragSelectedObject(m) ==
  IF ~isDraggingSelectedObject \/ m = <<>> \/ ~IsMesh(shapes, selected)
  THEN UNCHANGED <<shapes, measurements>>
  ELSE LET pointOnPlane == Pt(m[1].x + selectedObjectOffset.x,
                              m[1].y + selectedObjectOffset.y)
           proposed == [shapes EXCEPT ![selected].position = pointOnPlane]
           best == getBestAlignments(
                     findAlignmentCandidates(proposed, selected,
                                             alignmentSnapThreshold))
           finalPosition ==
             IF best.horizontal # <<>> \/ best.vertical # <<>>
             THEN applyAlignmentSnap(proposed[selected], pointOnPlane,
                                     best.horizontal, best.vertical)
             ELSE pointOnPlane
           newShapes == [shapes EXCEPT ![selected].position = finalPosition]
       IN /\ InView(newShapes[selected])
          /\ shapes' = newShapes
          /\ measurements' =
               updateMeasurementsForShape(
                 measurements, measurementTrackingMap, shapeToMeasurementsMap,
                 newShapes, selected)

updateSelectionDrag(m, shift) ==
  IF labelDrag.isDraggingLabel
  THEN /\ updateLabelDrag(m)
       /\ UNCHANGED <<measureToolVars, shapes, moduleVars>>
  ELSE IF measureMode
  THEN /\ handleMeasureMouseMove(m)
       /\ UNCHANGED <<measurements, shapes, moduleVars>>
  ELSE
  /\ UNCHANGED measureToolVars
  /\ IF activeResizeHandle # "null"
     THEN CASE activeResizeKind = "plane" ->
                 /\ updatePlaneResize(m, shift)
                 /\ UNCHANGED <<circleResize, planeRotate, circleRotate>>
            [] activeResizeKind = "circle" ->
                 /\ updateCircleResize(m, shift)
                 /\ UNCHANGED <<planeResize, planeRotate, circleRotate>>
            [] activeResizeKind = "rotate-plane" ->
                 /\ updatePlaneRotate(m, shift)
                 /\ UNCHANGED <<planeResize, circleResize, circleRotate>>
            [] activeResizeKind = "rotate-circle" ->
                 /\ updateCircleRotate(m, shift)
                 /\ UNCHANGED <<planeResize, circleResize, planeRotate>>
            [] OTHER -> UNCHANGED <<shapes, measurements, moduleVars>>
     ELSE /\ dragSelectedObject(m)
          /\ UNCHANGED moduleVars

\* mousemove on the canvas with the select tool
PointerMove(m, shift) ==
  /\ lastEvent' = "move"
  /\ UNCHANGED <<callVars, gestureCount, measureMode, selected, dragVars, labelDrag,
                 activeMeasurementId, storeActiveMeasurementId,
                 nextMeasurementId, trackingVars>>
  /\ updateSelectionDrag(m, shift)

endSelectionDrag ==
  /\ labelDrag' = NoLabelDrag
  /\ isDraggingSelectedObject' = FALSE
  /\ planeResize' =
       IF activeResizeKind = "plane" THEN endPlaneResize ELSE planeResize
  /\ circleResize' =
       IF activeResizeKind = "circle" THEN endCircleResize ELSE circleResize
  /\ planeRotate' =
       IF activeResizeKind = "rotate-plane" THEN endPlaneRotate
       ELSE planeRotate
  /\ circleRotate' =
       IF activeResizeKind = "rotate-circle" THEN endCircleRotate
       ELSE circleRotate
  /\ measurements' =
       IF IsMesh(shapes, selected) /\ activeResizeKind # "null"
       THEN updateMeasurementsForShape(
              measurements, measurementTrackingMap, shapeToMeasurementsMap,
              shapes, selected)
       ELSE measurements
  /\ activeResizeHandle' = "null"
  /\ activeResizeKind' = "null"

\* mouseup on the canvas
PointerUp ==
  /\ endSelectionDrag
  /\ lastEvent' = "up"
  /\ UNCHANGED <<callVars, gestureCount, measureMode, measureToolVars, trackingVars,
                 shapes, selected, selectedObjectOffset, activeMeasurementId,
                 storeActiveMeasurementId, nextMeasurementId>>

\* the ids removeMeasurementsForShape walks through
RECURSIVE removeAll(_, _)
removeAll(ms, ids) ==
  IF ids = {} THEN ms
  ELSE LET id == CHOOSE i \in ids : TRUE
       IN removeAll(removeMeasurement(ms, id), ids \ {id})

RECURSIVE detachAllFromShapes(_, _, _)
detachAllFromShapes(tmap, smap, ids) ==
  IF ids = {} THEN smap
  ELSE LET id == CHOOSE i \in ids : TRUE
       IN detachAllFromShapes(tmap, detachFromShapes(tmap, smap, id),
                              ids \ {id})

removeMeasurementsForShape(shapeUuid) ==
  IF shapeUuid \notin DOMAIN shapeToMeasurementsMap
  THEN UNCHANGED <<measurements, trackingVars, activeMeasurementId>>
  ELSE LET idsToRemove == shapeToMeasurementsMap[shapeUuid]
       IN /\ measurements' = removeAll(measurements, idsToRemove)
          /\ shapeToMeasurementsMap' =
               detachAllFromShapes(measurementTrackingMap,
                                   shapeToMeasurementsMap, idsToRemove)
          /\ measurementTrackingMap' =
               [j \in DOMAIN measurementTrackingMap \ idsToRemove |->
                  measurementTrackingMap[j]]
          /\ activeMeasurementId' =
               IF activeMeasurementId \in idsToRemove THEN 0
               ELSE activeMeasurementId

deleteSelectedShape ==
  /\ removeMeasurementsForShape(selected)
  /\ shapes' = [k \in DOMAIN shapes \ {selected} |-> shapes[k]]
  /\ selected' = "null"
  /\ UNCHANGED storeActiveMeasurementId

deleteMeasurementById(measurementId) ==
  /\ storeActiveMeasurementId' = 0
  /\ activeMeasurementId' = 0
  /\ shapeToMeasurementsMap' =
       detachFromShapes(measurementTrackingMap, shapeToMeasurementsMap,
                        measurementId)
  /\ measurementTrackingMap' =
       detachFromTracking(measurementTrackingMap, measurementId)
  /\ measurements' = removeMeasurement(measurements, measurementId)
  /\ UNCHANGED <<shapes, selected>>

\* App.tsx: Delete or Backspace
DeleteKey ==
  /\ lastEvent' = "delete"
  /\ UNCHANGED <<callVars, gestureCount, measureMode, measureToolVars, moduleVars,
                 dragVars, labelDrag, nextMeasurementId>>
  /\ IF selected # "null" THEN deleteSelectedShape
     ELSE IF storeActiveMeasurementId # 0
     THEN deleteMeasurementById(storeActiveMeasurementId)
     ELSE UNCHANGED <<measurements, activeMeasurementId,
                      storeActiveMeasurementId, trackingVars, shapes, selected>>

-----------------------------------------------------------------------------
(* Pointer positions of the measuring session, on the drawing plane *)

\* 0.20 m right of the lower-left corner of the plane (snaps to it), and
\* 19.90 m along the x axis (away from every shape, beyond the 19.5 m clamp
\* of the canvas bounds)
MeasurePointer == {Pt(220, 200), Pt(1990, 0)}

\* a ray that misses the drawing plane projects to null
MeasureInput == {<<>>} \cup {<<p>> : p \in MeasurePointer}

Next ==
  \/ HandleMeasureToggle
  \/ \E enabled \in BOOLEAN : SetAllowFreeMeasurement(enabled)
  \/ \E m \in MeasureInput, shift \in BOOLEAN : PointerMove(m, shift)
  \/ \E m \in MeasureInput : HandleMeasureClick(m)

Spec == Init /\ [][Next]_vars

-----------------------------------------------------------------------------
(* Properties of the measurement click state machine *)

\* a step in which the third click creates a measurement
IsThirdClick == secondPoint # <<>> /\ lastEvent' = "click3"

LastMeasurement(ms) == ms[Len(ms)]

ClickStateEmpty ==
  /\ firstPoint = <<>>
  /\ secondPoint = <<>>
  /\ secondClickPosition = <<>>
  /\ firstPointShapeUuid = "undefined"
  /\ secondPointShapeUuid = "undefined"

C2_AsStated ==
  [][\A m \in MeasureInput :
       (IsThirdClick /\ m # <<>> /\ HandleMeasureClick(m))
       => LastMeasurement(measurements').dimensionOffset =
            IF DistLess(m[1], secondClickPosition[1], SAME_POINT_TOLERANCE)
            THEN 0
            ELSE clampDimensionOffset(
                   calculateDimensionOffset(firstPoint[1], secondPoint[1],
                                            m[1]),
                   maxOffset)]_vars

\* C9: with a first point and no second point, a click that resolves to a
\* point closer than 0.3048 to the first point changes neither the first
\* point nor its shape id, sets no second point and creates no measurement.
C9_ShortClickRejected ==
  [][\A m \in MeasureInput :
       (/\ measureMode /\ firstPoint # <<>> /\ secondPoint = <<>>
        /\ m # <<>>
        /\ HandleMeasureClick(m)
        /\ ResolvedPoint(m[1]) # <<>>
        /\ DistLessE4(firstPoint[1], ResolvedPoint(m[1])[1],
                      MIN_DIMENSION_LENGTH_M))
       => /\ firstPoint' = firstPoint
          /\ firstPointShapeUuid' = firstPointShapeUuid
          /\ secondPoint' = <<>>
          /\ secondClickPosition' = secondClickPosition
          /\ secondPointShapeUuid' = secondPointShapeUuid
          /\ measurements' = measurements
          /\ trackingVars' = trackingVars]_vars

\* a click has just been rejected as too short, the first point still set
C9_Witness ==
  /\ lastEvent = "rejected"
  /\ measureMode
  /\ firstPoint # <<>>
  /\ secondPoint = <<>>
  /\ measurements = <<>>

\* C10: on click 1 or 2 with no snap under the pointer, the click resolves
\* to the free pointer position when free measurement is allowed (stored
\* clamped to the canvas bounds, click 2 subject to the minimum length);
\* otherwise the click is ignored and the click state does not change.
C10_FreeOrIgnored ==
  [][\A m \in MeasureInput :
       (/\ measureMode /\ (firstPoint = <<>> \/ secondPoint = <<>>)
        /\ m # <<>>
        /\ getBestSnap(m[1]) = <<>>
        /\ HandleMeasureClick(m))
       => IF allowFreeMeasurement
          THEN /\ currentSnapPoint' = m
               /\ firstPoint = <<>>
                  => /\ firstPoint' = <<clampToCanvasBounds(m[1])>>
                     /\ firstPointShapeUuid' = "undefined"
                     /\ secondPoint' = <<>>
               /\ (firstPoint # <<>>
                   /\ ~DistLessE4(firstPoint[1], m[1], MIN_DIMENSION_LENGTH_M))
                  => /\ secondPoint' = <<clampToCanvasBounds(m[1])>>
                     /\ secondClickPosition' = m
                     /\ secondPointShapeUuid' = "undefined"
                     /\ firstPoint' = firstPoint
          ELSE /\ UNCHANGED <<firstPoint, secondPoint, currentSnapPoint,
                              previewDimensionOffset, firstPointShapeUuid,
                              secondPointShapeUuid, secondClickPosition>>
               /\ measurements' = measurements]_vars

\* a click without snap has just been ignored while free measurement is off
\* and a first point, placed earlier, is still waiting for its second point
C10_Witness ==
  /\ lastEvent = "ignored"
  /\ ~allowFreeMeasurement
  /\ measureMode
  /\ firstPoint # <<>>
  /\ secondPoint = <<>>

-----------------------------------------------------------------------------
(* Editing session: the select tool on a scene with attached measurements *)

\* the centre of the plane and the centre of the circle, 4 m above it
DragPointer == {Pt(400, 300), Pt(400, 700)}

DragInput == {<<>>} \cup {<<p>> : p \in DragPointer}

\* measurement 1 runs from the lower-left corner of the plane to the lowest
\* cardinal point of the circle, measurement 2 from the centre of the
\* circle to a free point; both as the three clicks leave them
InitMeasured ==
  LET m1 == addMeasurement(1, Pt(200, 200), Pt(400, 500), 0)
      m2 == addMeasurement(2, Pt(400, 700), Pt(1000, 700),
                          defaultDimensionOffset)
      maps1 == attachMeasurementToShapes(EmptyMap, EmptyMap, InitialShapes,
                                         1, m1.startPoint, m1.endPoint,
                                         "s1", "s2")
      maps2 == attachMeasurementToShapes(maps1.measurementTrackingMap,
                                         maps1.shapeToMeasurementsMap,
                                         InitialShapes, 2, m2.startPoint,
                                         m2.endPoint, "s2", "undefined")
  IN /\ measurements = <<m1, m2>>
     /\ nextMeasurementId = 3
     /\ measurementTrackingMap = maps2.measurementTrackingMap
     /\ shapeToMeasurementsMap = maps2.shapeToMeasurementsMap

\* a press and release on the centre of a shape may have selected it before
\* the session starts
InitDrag ==
  /\ InitModules
  /\ InitMeasured
  /\ NoCall
  /\ selected \in {"null"} \cup ShapeIds

NextDrag ==
  \/ \E m \in DragInput : \E hit \in Hits(m) : PointerDown(hit, m)
  \/ \E m \in DragInput, shift \in BOOLEAN : PointerMove(m, shift)
  \/ PointerUp
  \/ DeleteKey

SpecDrag == InitDrag /\ [][NextDrag]_vars

-----------------------------------------------------------------------------
(* Properties of the editing session *)

HandleStates ==
  {k \in {"plane", "circle", "rotate-plane", "rotate-circle"} :
     CASE k = "plane" -> planeResize.activePlaneHandleRole # "null"
       [] k = "circle" -> circleResize.activeCircleHandleRole # "null"
       [] k = "rotate-plane" -> planeRotate.isRotating
       [] k = "rotate-circle" -> circleRotate.isRotating}

\* C3 as stated: after any sequence of pointer events at most one kind of
\* handle state is non-null, and neither a label drag nor a handle is active
\* together with a plain shape drag
C3_AsStated ==
  /\ Cardinality(HandleStates) <= 1
  /\ ~(labelDrag.isDraggingLabel /\ isDraggingSelectedObject)
  /\ ~(activeResizeHandle # "null" /\ isDraggingSelectedObject)

\* C4 as stated: after every pointer-up no label drag, shape drag, resize or
\* rotate is active and every module's handle state is cleared
C4_AsStated ==
  lastEvent = "up" =>
    /\ ~labelDrag.isDraggingLabel
    /\ ~isDraggingSelectedObject
    /\ activeResizeHandle = "null"
    /\ activeResizeKind = "null"
    /\ HandleStates = {}

\* the attachments of the tracked measurements whose shape is on the scene
LiveAttachments ==
  {a \in [id : DOMAIN measurementTrackingMap, end : {"start", "end"}] :
     LET t == measurementTrackingMap[a.id]
         att == IF a.end = "start" THEN t.startAttachment ELSE t.endAttachment
     IN att # <<>> /\ att[1].shapeId \in DOMAIN shapes}

AttachmentOf(a) ==
  IF a.end = "start" THEN measurementTrackingMap[a.id].startAttachment[1]
  ELSE measurementTrackingMap[a.id].endAttachment[1]

EndpointOf(a) ==
  LET m == getMeasurementById(measurements, a.id)[1]
  IN IF a.end = "start" THEN m.startPoint ELSE m.endPoint

\* C5 as stated: after every handled event each attached endpoint is the
\* world position of its normalized coordinate under the current geometry
\* and transform of its shape
C5_AsStated ==
  \A a \in LiveAttachments :
    getMeasurementById(measurements, a.id) # <<>> =>
      EndpointOf(a) =
        normalizedToWorld(AttachmentOf(a).localNormalized,
                          shapes[AttachmentOf(a).shapeId])

\* the recorded local point carried along by the transform of the shape:
\* scaled by the ratio of the current extents to the extents at recording,
\* then rotated and translated
transformRecorded(localPoint, recorded, shape) ==
  localToWorld(shape,
               Pt(SDiv(localPoint.x * shape.halfWidth, recorded.halfWidth),
                  SDiv(localPoint.y * shape.halfHeight, recorded.halfHeight)))

\* C6: for every attached endpoint, whatever translations, rotations and
\* resizes its shape went through, the point recomputed from the normalized
\* coordinate is the recorded local point under the new transform
C6_AffineInvariance ==
  \A a \in LiveAttachments :
    LET att == AttachmentOf(a)
    IN normalizedToWorld(att.localNormalized, shapes[att.shapeId]) =
         transformRecorded(att.localPoint, InitialShapes[att.shapeId],
                           shapes[att.shapeId])

\* the plane has been turned by a quarter and resized, and the start of
\* measurement 1 has followed its corner
C6_Witness ==
  /\ "s1" \in DOMAIN shapes
  /\ shapes["s1"].rotation = 90
  /\ shapes["s1"].halfWidth # InitialShapes["s1"].halfWidth
  /\ [id |-> 1, end |-> "start"] \in LiveAttachments
  /\ getMeasurementById(measurements, 1) # <<>>
  /\ getMeasurementById(measurements, 1)[1].startPoint =
       normalizedToWorld(
         measurementTrackingMap[1].startAttachment[1].localNormalized,
         shapes["s1"])
  /\ getMeasurementById(measurements, 1)[1].startPoint # Pt(200, 200)

\* the measurements recorded at the start of the session with an endpoint
\* on the shape
AttachedAtStart(shapeId) ==
  {id \in {1, 2} :
     LET maps == attachMeasurementToShapes(
                   EmptyMap, EmptyMap, InitialShapes, id,
                   IF id = 1 THEN Pt(200, 200) ELSE Pt(400, 700),
                   IF id = 1 THEN Pt(400, 500) ELSE Pt(1000, 700),
                   IF id = 1 THEN "s1" ELSE "s2",
                   IF id = 1 THEN "s2" ELSE "undefined")
         t == maps.measurementTrackingMap[id]
     IN IsAttachedTo(t.startAttachment, shapeId)
        \/ IsAttachedTo(t.endAttachment, shapeId)}

\* C7: once a shape is deleted, no measurement that had an endpoint
\* attached to it is left in the collection, in the tracking map or in a
\* set of the shape-to-measurements map
C7_DeletedWithShape ==
  \A k \in ShapeIds \ DOMAIN shapes :
    \A id \in AttachedAtStart(k) :
      /\ id \notin MeasurementIds(measurements)
      /\ id \notin DOMAIN measurementTrackingMap
      /\ \A j \in DOMAIN shapeToMeasurementsMap :
           id \notin shapeToMeasurementsMap[j]

\* the circle has just been deleted and took both measurements with it
C7_Witness ==
  /\ lastEvent = "delete"
  /\ DOMAIN shapes = {"s1"}
  /\ measurements = <<>>
  /\ measurementTrackingMap = EmptyMap

ShapeDeleted == DOMAIN shapes' # DOMAIN shapes

OnDeletedShape(id) ==
  /\ selected \in DOMAIN shapeToMeasurementsMap
  /\ id \in shapeToMeasurementsMap[selected]

\* C8 as stated: a measurement attached to the shape that is deleted stays
\* in the collection with its last endpoints
C8_AsStated ==
  [][ShapeDeleted =>
       \A i \in 1..Len(measurements) :
         OnDeletedShape(measurements[i].id) =>
           \E j \in 1..Len(measurements') :
             /\ measurements'[j].id = measurements[i].id
             /\ measurements'[j].startPoint = measurements[i].startPoint
             /\ measurements'[j].endPoint = measurements[i].endPoint]_vars

\* C8 amended: deleting a shape removes exactly the measurements attached
\* to it; every other measurement stays in the collection, unchanged and in
\* order
C8_OthersKept ==
  [][ShapeDeleted =>
       measurements' =
         SelectSeq(measurements,
                   LAMBDA m : ~OnDeletedShape(m.id))]_vars

\* the plane has just been deleted: measurement 1 went with it,
\* measurement 2, on the circle, is left with its endpoints
C8_Witness ==
  /\ lastEvent = "delete"
  /\ DOMAIN shapes = {"s2"}
  /\ Len(measurements) = 1
  /\ measurements[1].id = 2
  /\ measurements[1].startPoint = shapes["s2"].position

-----------------------------------------------------------------------------
(* Label session: the labels of the two measurements are pressed, dragged  *)
(* and released, and the offset of the active measurement is set directly  *)

\* two points of the drawing plane 38 m apart, across both measured lines
LabelPointer == {Pt(400, -1900), Pt(400, 1900)}

LabelInput == {<<>>} \cup {<<p>> : p \in LabelPointer}

\* 5 m, and 25 m which is beyond the 20 m of clampDimensionOffset
OffsetInput == {500, 2500}

NextLabel ==
  \/ \E m \in LabelInput :
       \E hit \in {h \in Hits(m) : h.type = "label"} : PointerDown(hit, m)
  \/ \E m \in LabelInput, shift \in BOOLEAN : PointerMove(m, shift)
  \/ PointerUp
  \/ \E offset \in OffsetInput : SetActiveMeasurementOffset(offset)

SpecLabel == InitDrag /\ [][NextLabel]_vars

\* C12: the dimension-line offset of every measurement is within
\* [-20 m, 20 m] after any sequence of click-3 finalisations, label drags
\* and direct settings of the active measurement's offset.
C12_AsStated ==
  \A i \in 1..Len(measurements) :
    /\ measurements[i].dimensionOffset >= -maxOffset
    /\ measurements[i].dimensionOffset <= maxOffset

-----------------------------------------------------------------------------
(* Resize session: the handles of the selected shape are pressed, dragged  *)
(* with a pointer that always projects on the drawing plane, and released  *)

\* the centre of the plane, a point 3 m right of and 1.5 m above it, and
\* the centre of the circle
ResizePointer == {Pt(400, 300), Pt(700, 450), Pt(400, 700)}

ResizeInput == {<<p>> : p \in ResizePointer}

\* a press and release on the centre of a shape has selected it
InitResize ==
  /\ InitModules
  /\ InitMeasured
  /\ NoCall
  /\ selected \in ShapeIds

NextResize ==
  \/ \E m \in ResizeInput :
       \E hit \in {h \in Hits(m) : h.type = "resize"} : PointerDown(hit, m)
  \/ \E m \in ResizeInput, shift \in BOOLEAN : PointerMove(m, shift)
  \/ PointerUp

SpecResize == InitResize /\ [][NextResize]_vars

\* a resize drag of the selected shape is going on, and the handle it holds
ResizingPlane ==
  /\ activeResizeKind = "plane"
  /\ planeResize.activePlaneHandleRole # "null"
  /\ IsMesh(shapes, selected)
ResizingCircle ==
  /\ activeResizeKind = "circle"
  /\ circleResize.activeCircleHandleRole # "null"
  /\ IsMesh(shapes, selected)
AlongX ==
  \/ ResizingPlane /\ planeResize.activePlaneHandleRole = "plane-right"
  \/ ResizingCircle /\ circleResize.activeCircleHandleRole = "ellipse-rx"

\* the offset of the pointer from the centre of the selected shape along
\* the axis of the held handle, in the frame of the shape
HandleOffset(m) ==
  LET l == worldToLocal(m[1], shapes[selected])
  IN IF AlongX THEN Abs(l.x) ELSE Abs(l.y)

\* half the extent of the selected shape along and across the axis of the
\* held handle, before and after the step
HalfAlong == IF AlongX THEN shapes[selected].halfWidth
             ELSE shapes[selected].halfHeight
HalfAlongAfter == IF AlongX THEN shapes'[selected].halfWidth
                  ELSE shapes'[selected].halfHeight
HalfAcrossAfter == IF AlongX THEN shapes'[selected].halfHeight
                   ELSE shapes'[selected].halfWidth

\* the move resized the shape to the offset of the pointer
ResizeApplied(m) ==
  HalfAlongAfter = IF ResizingPlane
                   THEN Max(HandleOffset(m), minPlaneExtent \div 2)
                   ELSE Max(HandleOffset(m), minRadius)

\* C16: after a resize begin the first pointer-move, and only that one, is
\* discarded (no geometry changes); every later pointer-move of the same
\* drag applies the resize.
C16_AsStated ==
  [][\A m \in ResizeInput, shift \in BOOLEAN :
       (PointerMove(m, shift) /\ (ResizingPlane \/ ResizingCircle))
         => IF lastEvent = "down" THEN shapes' = shapes
            ELSE ResizeApplied(m)]_vars

\* the move is not the one that captures the reference point
AppliedMove ==
  \/ ResizingPlane /\ planeResize.initialMouseLocal # Pt(0, 0)
  \/ ResizingCircle /\ circleResize.initialMouseLocal # Pt(0, 0)

\* C17: for a plane, an applied right-handle move to local x-offset m sets
\* the width to 2 * |m|, or to the minimum extent 0.2 m when that is
\* smaller; likewise for the top handle and the height.
C17_WidthIsTwiceOffset ==
  [][\A m \in ResizeInput, shift \in BOOLEAN :
       (PointerMove(m, shift) /\ ResizingPlane /\ AppliedMove)
         => 2 * HalfAlongAfter = Max(2 * HandleOffset(m), minPlaneExtent)]_vars

\* the plane, drawn 4 m x 2 m, was dragged to a width of 6 m by its right
\* handle and clamped to a height of 0.2 m by its top handle
C17_Witness ==
  /\ lastEvent = "move"
  /\ "s1" \in DOMAIN shapes
  /\ shapes["s1"].halfWidth = 300
  /\ shapes["s1"].halfHeight = minPlaneExtent \div 2

\* the extents captured at the begin of the drag, along and across the axis
\* of the held handle
InitialAlong ==
  IF ResizingPlane
  THEN (IF AlongX THEN planeResize.initialWidth ELSE planeResize.initialHeight)
  ELSE (IF AlongX THEN circleResize.initialRadiusX
        ELSE circleResize.initialRadiusY)
InitialAcross ==
  IF ResizingPlane
  THEN (IF AlongX THEN planeResize.initialHeight ELSE planeResize.initialWidth)
  ELSE (IF AlongX THEN circleResize.initialRadiusY
        ELSE circleResize.initialRadiusX)

\* the extents after the step, in the unit of the captured ones (width and
\* height for a plane, radii for a circle)
ExtentAlongAfter == IF ResizingPlane THEN 2 * HalfAlongAfter ELSE HalfAlongAfter
ExtentAcrossAfter == IF ResizingPlane THEN 2 * HalfAcrossAfter ELSE HalfAcrossAfter

-----------------------------------------------------------------------------
(* Label edit session: the labels of two measurements along the bottom and *)
(* the left edge of the plane are edited to new lengths                    *)

\* a measurement with the optional link to a plane and a role
WithRole(measurement, shapeUuid, role) ==
  [k \in DOMAIN measurement
          \cup {"shapeUuid", "geometryType", "planeMeasureRole"} |->
     CASE k = "shapeUuid" -> shapeUuid
       [] k = "geometryType" -> "plane"
       [] k = "planeMeasureRole" -> role
       [] OTHER -> measurement[k]]

\* the four values of PlaneMeasureRole
WidthRoles == {"width-left-anchored", "width-right-anchored"}
HeightRoles == {"height-bottom-anchored", "height-top-anchored"}

\* lengths typed into a label: 0 (not valid), 2 m, 6 m and 8 m
LabelLengths == {0, 200, 600, 800}

\* measurement 1 spans the bottom edge of the plane and measurement 2 its
\* left edge, both attached to the plane at both ends; each carries a role
\* of its axis or no link at all
InitEdit ==
  /\ InitModules
  /\ NoCall
  /\ selected = "null"
  /\ nextMeasurementId = 3
  /\ LET m1 == addMeasurement(1, Pt(200, 200), Pt(600, 200),
                              defaultDimensionOffset)
         m2 == addMeasurement(2, Pt(200, 200), Pt(200, 400),
                              defaultDimensionOffset)
         maps1 == attachMeasurementToShapes(EmptyMap, EmptyMap, InitialShapes,
                                            1, m1.startPoint, m1.endPoint,
                                            "s1", "s1")
         maps2 == attachMeasurementToShapes(maps1.measurementTrackingMap,
                                            maps1.shapeToMeasurementsMap,
                                            InitialShapes, 2, m2.startPoint,
                                            m2.endPoint, "s1", "s1")
     IN /\ measurementTrackingMap = maps2.measurementTrackingMap
        /\ shapeToMeasurementsMap = maps2.shapeToMeasurementsMap
        /\ \E w \in {m1} \cup {WithRole(m1, "s1", r) : r \in WidthRoles},
              h \in {m2} \cup {WithRole(m2, "s1", r) : r \in HeightRoles} :
             measurements = <<w, h>>

NextEdit ==
  \E measurementId \in 1..2, newMeters \in LabelLengths :
    EditLabel(measurementId, newMeters)

SpecEdit == InitEdit /\ [][NextEdit]_vars

\* the measurement carries a geometry role and its shape is in the scene
CarriesRole(measurement) ==
  /\ HasShapeLink(measurement)
  /\ "planeMeasureRole" \in DOMAIN measurement
  /\ IsMesh(shapes, measurement.shapeUuid)

\* the extent of a shape along the axis of a role, and the coordinate of
\* the edge the role anchors
RoleExtent(shape, role) ==
  LET b == getShapeBounds(shape)
  IN IF role \in WidthRoles THEN b.right - b.left ELSE b.top - b.bottom
AnchoredEdge(shape, role) ==
  LET b == getShapeBounds(shape)
  IN CASE role = "width-left-anchored" -> b.left
       [] role = "width-right-anchored" -> b.right
       [] role = "height-bottom-anchored" -> b.bottom
       [] role = "height-top-anchored" -> b.top

\* every end point attached to the shape is where its normalized
\* coordinate lies on the shape after the step
RetrackedAfter(shapeId) ==
  \A i \in 1..Len(measurements') :
    LET m == measurements'[i]
    IN (shapeId \in DOMAIN shapeToMeasurementsMap
        /\ m.id \in shapeToMeasurementsMap[shapeId]
        /\ m.id \in DOMAIN measurementTrackingMap) =>
         LET t == measurementTrackingMap[m.id]
         IN /\ IsAttachedTo(t.startAttachment, shapeId) =>
                 m.startPoint =
                   normalizedToWorld(t.startAttachment[1].localNormalized,
                                     shapes'[shapeId])
            /\ IsAttachedTo(t.endAttachment, shapeId) =>
                 m.endPoint =
                   normalizedToWorld(t.endAttachment[1].localNormalized,
                                     shapes'[shapeId])

-----------------------------------------------------------------------------
(* The snap resolver taken alone: getBestSnap on a cursor near a feature *)

\* the scene as drawn, with the plane upright or turned by a quarter
SnapScenes ==
  {[InitialShapes EXCEPT !["s1"].rotation = r] : r \in {0, 90}}

\* the lower-left corner of the upright plane, the centre of the plane and
\* the centre of the circle
SnapAnchors == {Pt(200, 200), Pt(400, 300), Pt(400, 700)}

SnapProbes ==
  {Pt(a.x + dx, a.y + dy) :
     a \in SnapAnchors, dx \in 0..MaxProbeOffset, dy \in 0..MaxProbeOffset}

InitSnap ==
  /\ InitIdle
  /\ probe \in [mouseWorldPos : SnapProbes, scene : SnapScenes,
                 snapToPoints : BOOLEAN, snapToEdges : BOOLEAN]
  /\ returned = <<>>

CallGetBestSnap ==
  /\ returned = <<>>
  /\ returned' = <<getBestSnapIn(probe.mouseWorldPos, probe.scene,
                                 probe.snapToPoints, probe.snapToEdges,
                                 showGuideLines)>>
  /\ UNCHANGED <<probe, programVars>>

NextSnap == CallGetBestSnap

SpecSnap == InitSnap /\ [][NextSnap]_vars

\* the squared distances from the cursor to the nearest point feature and
\* to the nearest edge feature of the probed scene
NearestPoint ==
  findNearestSnapPoint(probe.mouseWorldPos, collectAllSnapPoints(probe.scene))
EdgeDistSq ==
  LET allEdges == collectAllSnapEdges(probe.scene, showGuideLines)
  IN {DistSq(probe.mouseWorldPos,
             closestPointOnSegment(probe.mouseWorldPos, allEdges[i].start,
                                   allEdges[i].end)) :
        i \in 1..Len(allEdges)}
NearestEdgeDistSq == CHOOSE d \in EdgeDistSq : \A e \in EdgeDistSq : d <= e

\* sqrt(b) - sqrt(a) < pointPriorityBias
WithinBias(a, b) ==
  LET rest == b - a - pointPriorityBias * pointPriorityBias
  IN ~(rest >= 0 /\ 4 * pointPriorityBias * pointPriorityBias * a <= rest * rest)

\* the nearest point and the nearest edge are both within the snap
\* threshold, the edge strictly closer but by less than the bias
PointEdgeTie ==
  /\ probe.snapToPoints /\ probe.snapToEdges
  /\ NearestPoint # <<>>
  /\ LET dPoint == DistSq(probe.mouseWorldPos, NearestPoint[1].position)
     IN /\ dPoint < snapThreshold * snapThreshold
        /\ NearestEdgeDistSq < snapThreshold * snapThreshold
        /\ NearestEdgeDistSq < dPoint
        /\ WithinBias(NearestEdgeDistSq, dPoint)

\* C11: with point and edge snapping on, when the nearest point feature and
\* the nearest edge feature are both within the snap threshold of the cursor
\* and the edge is strictly closer by less than the priority bias, the
\* resolver returns the point feature and no edge.
C11_PointWinsTie ==
  (returned # <<>> /\ PointEdgeTie)
    => /\ returned[1].snap = NearestPoint
       /\ returned[1].edge = <<>>

C11_Witness ==
  /\ returned # <<>>
  /\ PointEdgeTie
  /\ returned[1].snap # <<>>
  /\ returned[1].snap[1].type = "vertex"

-----------------------------------------------------------------------------
(* The alignment resolver taken alone: findAlignmentCandidates,            *)
(* getBestAlignments and applyAlignmentSnap on a shape dragged near others *)

\* displacements from an aligned position: small ones, and those at and
\* just below the snap threshold
AlignDeltas ==
  (-MaxNudge..MaxNudge)
  \cup {-alignmentSnapThreshold, 1 - alignmentSnapThreshold,
        alignmentSnapThreshold - 1, alignmentSnapThreshold}

\* positions of the dragged shape around which the deltas are taken
AlignBases == {Pt(bx, by) : bx \in {300, 400, 700}, by \in {300, 500}}

\* the dragged shape s2: a circle of radius 1 m, or a 2 m x 1 m plane turned
\* by a quarter
DraggedShapes(pos) ==
  {Circle(100, pos.x, pos.y),
   [Plane(pos.x, pos.y, 200, 100) EXCEPT !.rotation = 90]}

\* the plane s1 as drawn, with or without a second plane s3 above it
AlignScenes ==
  {[id \in ids |->
      CASE id = "s1" -> InitialShapes["s1"]
        [] id = "s2" -> d
        [] id = "s3" -> Plane(700, 650, 200, 100)] :
     ids \in {{"s1", "s2"}, {"s1", "s2", "s3"}},
     d \in UNION {DraggedShapes(Pt(b.x + dx, b.y + dy)) :
                    b \in AlignBases, dx \in AlignDeltas, dy \in AlignDeltas}}

InitAlign ==
  /\ InitIdle
  /\ probe \in [scene : AlignScenes, dragged : {"s2"}]
  /\ returned = <<>>

\* the scene holds the dragged shape at the proposed position
CallFindAlignmentCandidates ==
  /\ returned = <<>>
  /\ returned' = <<[stage |-> "candidates",
                    candidates |->
                      findAlignmentCandidates(probe.scene, probe.dragged,
                                              alignmentSnapThreshold),
                    best |-> [horizontal |-> <<>>, vertical |-> <<>>],
                    snapped |-> <<>>]>>
  /\ UNCHANGED <<probe, programVars>>

CallGetBestAlignments ==
  /\ returned # <<>>
  /\ returned[1].stage = "candidates"
  /\ returned' = <<[returned[1] EXCEPT
                      !.stage = "best",
                      !.best = getBestAlignments(returned[1].candidates)]>>
  /\ UNCHANGED <<probe, programVars>>

CallApplyAlignmentSnap ==
  /\ returned # <<>>
  /\ returned[1].stage = "best"
  /\ returned' = <<[returned[1] EXCEPT
                      !.stage = "snapped",
                      !.snapped =
                        <<applyAlignmentSnap(
                            probe.scene[probe.dragged],
                            probe.scene[probe.dragged].position,
                            returned[1].best.horizontal,
                            returned[1].best.vertical)>>]>>
  /\ UNCHANGED <<probe, programVars>>

NextAlign ==
  \/ CallFindAlignmentCandidates
  \/ CallGetBestAlignments
  \/ CallApplyAlignmentSnap

SpecAlign == InitAlign /\ [][NextAlign]_vars

\* the first candidate of a family in a list, or none
FirstOfTypes(candidates, types) ==
  LET hits == {i \in 1..Len(candidates) : candidates[i].type \in types}
  IN IF hits = {} THEN <<>>
     ELSE <<candidates[CHOOSE i \in hits : \A j \in hits : i <= j]>>

BestReturned == returned # <<>> /\ returned[1].stage \in {"best", "snapped"}

\* C13: getBestAlignments returns as its vertical guide the first
\* vertical-family candidate of the distance-sorted list (or none) and as
\* its horizontal guide the first horizontal-family candidate (or none), so
\* the two guides are never of the same family.
C13_FirstOfEachFamily ==
  BestReturned =>
    LET best == returned[1].best
        candidates == returned[1].candidates
    IN /\ best.vertical = FirstOfTypes(candidates, VerticalTypes)
       /\ best.horizontal = FirstOfTypes(candidates, HorizontalTypes)
       /\ best.vertical # <<>> => best.vertical[1].type \in VerticalTypes
       /\ best.horizontal # <<>> => best.horizontal[1].type \in HorizontalTypes

\* both guides are found although a closer candidate of the vertical family
\* precedes the horizontal guide and a second vertical candidate follows
C13_Witness ==
  /\ BestReturned
  /\ returned[1].best.vertical # <<>>
  /\ returned[1].best.horizontal # <<>>
  /\ LET candidates == returned[1].candidates
     IN /\ Len(candidates) >= 3
        /\ candidates[1].type \in VerticalTypes
        /\ candidates[2].type \in VerticalTypes
        /\ returned[1].best.horizontal[1] # candidates[2]

\* the feature of the dragged shape and the feature of the target that an
\* alignment type compares
DraggedFeature(type) ==
  CASE type = "center-x" -> "centerX" [] type = "center-y" -> "centerY"
    [] type \in {"edge-left", "edge-left-to-right"} -> "left"
    [] type \in {"edge-right", "edge-right-to-left"} -> "right"
    [] type \in {"edge-top", "edge-top-to-bottom"} -> "top"
    [] type \in {"edge-bottom", "edge-bottom-to-top"} -> "bottom"
TargetFeature(type) ==
  CASE type = "center-x" -> "centerX" [] type = "center-y" -> "centerY"
    [] type \in {"edge-left", "edge-right-to-left"} -> "left"
    [] type \in {"edge-right", "edge-left-to-right"} -> "right"
    [] type \in {"edge-top", "edge-bottom-to-top"} -> "top"
    [] type \in {"edge-bottom", "edge-top-to-bottom"} -> "bottom"

\* every pairing of another shape with one of the ten alignment types whose
\* coordinate difference is strictly below the threshold
ExpectedCandidates ==
  LET d == getShapeBounds(probe.scene[probe.dragged])
  IN {c \in {[type |-> ty, targetShape |-> t,
               alignmentValue |-> getShapeBounds(probe.scene[t])[TargetFeature(ty)],
               distance |-> Abs(d[DraggedFeature(ty)]
                                - getShapeBounds(probe.scene[t])[TargetFeature(ty)])] :
               ty \in VerticalTypes \cup HorizontalTypes,
               t \in DOMAIN probe.scene \ {probe.dragged}} :
        c.distance < alignmentSnapThreshold}

\* C14: findAlignmentCandidates returns exactly the candidates, over all
\* shapes other than the dragged one and all ten alignment types, whose
\* absolute coordinate difference is strictly below the threshold, each
\* once and with that difference as its distance, sorted by distance
\* ascending.
C14_ExactSortedCandidates ==
  returned # <<>> =>
    LET candidates == returned[1].candidates
    IN /\ {candidates[i] : i \in 1..Len(candidates)} = ExpectedCandidates
       /\ Len(candidates) = Cardinality(ExpectedCandidates)
       /\ \A i \in 1..Len(candidates) : \A j \in i..Len(candidates) :
            candidates[i].distance <= candidates[j].distance

\* left edges 2 cm apart give an edge-left candidate at distance 2 cm, next
\* to candidates of the other target and a difference equal to the
\* threshold that is left out
C14_Witness ==
  /\ returned # <<>>
  /\ \E i \in 1..Len(returned[1].candidates) :
       /\ returned[1].candidates[i].type = "edge-left"
       /\ returned[1].candidates[i].distance = 2
  /\ \E i \in 1..Len(returned[1].candidates) :
       returned[1].candidates[i].targetShape = "s3"
  /\ LET d == getShapeBounds(probe.scene[probe.dragged])
     IN Abs(d.centerY - getShapeBounds(probe.scene["s1"]).centerY)
          = alignmentSnapThreshold

\* the dragged shape put at the snapped position
SnappedShape ==
  [probe.scene[probe.dragged] EXCEPT !.position = returned[1].snapped[1]]

\* C15: after applyAlignmentSnap, the feature of the dragged shape matched
\* by the vertical candidate has exactly the X of the target's aligned
\* coordinate, the offset between the shape's position and that feature is
\* as before, and without a horizontal candidate Y is the desired Y;
\* symmetrically for the horizontal candidate and Y.
C15_SnappedOntoTarget ==
  (returned # <<>> /\ returned[1].stage = "snapped") =>
    LET desired == probe.scene[probe.dragged].position
        snapped == returned[1].snapped[1]
        before == getShapeBounds(probe.scene[probe.dragged])
        after == getShapeBounds(SnappedShape)
        v == returned[1].best.vertical
        h == returned[1].best.horizontal
    IN /\ IF v = <<>> THEN snapped.x = desired.x
          ELSE /\ after[DraggedFeature(v[1].type)] = v[1].alignmentValue
               /\ snapped.x - after[DraggedFeature(v[1].type)]
                    = desired.x - before[DraggedFeature(v[1].type)]
       /\ IF h = <<>> THEN snapped.y = desired.y
          ELSE /\ after[DraggedFeature(h[1].type)] = h[1].alignmentValue
               /\ snapped.y - after[DraggedFeature(h[1].type)]
                    = desired.y - before[DraggedFeature(h[1].type)]

\* a right edge was moved onto the target while Y was left alone
C15_Witness ==
  /\ returned # <<>>
  /\ returned[1].stage = "snapped"
  /\ returned[1].best.horizontal = <<>>
  /\ returned[1].best.vertical # <<>>
  /\ returned[1].best.vertical[1].type \in {"edge-right", "edge-right-to-left"}
  /\ returned[1].snapped[1].x # probe.scene[probe.dragged].position.x
  /\ returned[1].snapped[1].y = probe.scene[probe.dragged].position.y

-----------------------------------------------------------------------------
(* The coordinate conversions of trackMeasurement.ts taken alone *)

\* planes and ellipses of non-zero size, at two centres and in the four
\* rotations by multiples of 90 degrees
RoundShapes ==
  [kind : {"plane", "circle"}, position : {Pt(400, 300), Pt(-150, 250)},
   rotation : {0, 90, 180, 270},
   halfWidth : 1..MaxHalfExtent, halfHeight : 1..MaxHalfExtent]

RoundOffsets == (0 - MaxRoundOffset)..MaxRoundOffset

InitRound ==
  /\ InitIdle
  /\ \E shape \in RoundShapes, dx \in RoundOffsets, dy \in RoundOffsets :
       probe = [p |-> Pt(shape.position.x + dx, shape.position.y + dy),
                shape |-> shape]
  /\ returned = <<>>

\* a point attached as attachMeasurementToShapes does and brought back as
\* updateMeasurementsForShape does
CallRoundTrip ==
  /\ returned = <<>>
  /\ LET localPoint == worldToLocal(probe.p, probe.shape)
         normalized == getNormalizedCoordinates(localPoint, probe.shape)
     IN returned' = <<[localPoint |-> localPoint,
                       normalized |-> normalized,
                       world |-> normalizedToWorld(normalized, probe.shape)]>>
  /\ UNCHANGED <<probe, programVars>>

NextRound == CallRoundTrip

SpecRound == InitRound /\ [][NextRound]_vars

\* C20: for any point p and any shape whose bounding box has non-zero width
\* and height, normalizedToWorld(getNormalizedCoordinates(worldToLocal(p,
\* shape), shape), shape) is p again.
C20_RoundTrip ==
  (/\ returned # <<>>
   /\ boundingBox(probe.shape).max.x - boundingBox(probe.shape).min.x > 0
   /\ boundingBox(probe.shape).max.y - boundingBox(probe.shape).min.y > 0)
    => returned[1].world = probe.p

\* the round trip of a point outside a shape rotated by 90 degrees, whose
\* width and height differ
C20_Witness ==
  /\ returned # <<>>
  /\ probe.shape.rotation = 90
  /\ probe.shape.halfWidth # probe.shape.halfHeight
  /\ returned[1].normalized.x.n > returned[1].normalized.x.d
  /\ returned[1].normalized.y.n < 0
  /\ returned[1].world = probe.p


-----------------------------------------------------------------------------
(* Measuring between features: clicks near two corners of the plane, near *)
(* the centre of the circle and on free canvas                             *)

\* the two free points lie on the x axis, 19.40 m and 19.90 m from the
\* origin: inside and outside the 19.5 m clamp of the canvas bounds
AttachPointer ==
  {Pt(220, 200), Pt(600, 410), Pt(410, 700), Pt(1940, 0), Pt(1990, 0)}

AttachInput == {<<>>} \cup {<<p>> : p \in AttachPointer}

NextAttach ==
  \/ HandleMeasureToggle
  \/ \E m \in AttachInput : HandleMeasureClick(m)

SpecAttach == Init /\ [][NextAttach]_vars

\* the shapes that have a snap point at a position
FeatureShapes(p) ==
  LET all == collectAllSnapPoints(shapes)
  IN {all[i].shapeId : i \in {j \in 1..Len(all) : all[j].position = p}}

\* the attachment of an end point stored at `stored` whose click resolved
\* to `clicked`: none for a free click, otherwise the shape of the feature
\* with the normalized coordinate of the stored point
EndpointAttached(att, clicked, stored) ==
  IF FeatureShapes(clicked) = {}
  THEN att = <<>>
  ELSE /\ att # <<>>
       /\ att[1].shapeId \in FeatureShapes(clicked)
       /\ att[1].localNormalized =
            getNormalizedCoordinates(
              worldToLocal(stored, shapes[att[1].shapeId]),
              shapes[att[1].shapeId])

\* C21: when click 3 creates a Measurement, each end point whose click
\* snapped to a feature of a shape gets an attachment to that shape with the
\* normalized bounding-box coordinate of the end point, and an end point
\* that came from a free click gets no attachment.
C21_AttachedWhereSnapped ==
  [][\A m \in AttachInput :
       (HandleMeasureClick(m) /\ lastEvent' = "click3")
         => LET id == nextMeasurementId
            IN /\ id \in DOMAIN measurementTrackingMap'
               /\ EndpointAttached(
                    measurementTrackingMap'[id].startAttachment,
                    clickA[1], firstPoint[1])
               /\ EndpointAttached(
                    measurementTrackingMap'[id].endAttachment,
                    secondClickPosition[1], secondPoint[1])]_vars

\* a Measurement from the corner of the plane to the centre of the circle,
\* attached to the plane at its start and to the circle at its end
C21_Witness ==
  /\ lastEvent = "click3"
  /\ Len(measurements) = 1
  /\ measurements[1].startPoint = Pt(200, 200)
  /\ measurements[1].endPoint = Pt(400, 700)
  /\ IsAttachedTo(measurementTrackingMap[1].startAttachment, "s1")
  /\ IsAttachedTo(measurementTrackingMap[1].endAttachment, "s2")

-----------------------------------------------------------------------------
(* Properties of the label edit session, continued *)

\* C22: the cached distance of every Measurement equals the distance between
\* its current start and end points, after every re-tracking of its end
\* points and after every label-driven length edit.
C22_DistanceIsCurrent ==
  \A i \in 1..Len(measurements) :
    measurements[i].distanceSq
      = DistSq(measurements[i].startPoint, measurements[i].endPoint)

\* the width measurement was edited to 6 m, the plane was resized to it and
\* both measurements were re-tracked to the new geometry
C22_Witness ==
  /\ lastEvent = "edit"
  /\ shapes["s1"].halfWidth = 300
  /\ measurements[1].endPoint = Pt(800, 200)
  /\ measurements[1].distanceSq = 600 * 600
  /\ measurements[2].distanceSq = 200 * 200

-----------------------------------------------------------------------------
(* The animation frame: measurementRenderer.updateAllMeasurementLabels,    *)
(* called by the render loop of App.tsx between any two events              *)

\* the world position of the label of a measurement, handed to
\* projectToScreen: the point at labelOffset along the dimension line
labelWorldPosition(measurement) ==
  LET startPoint == measurement.startPoint
      endPoint == measurement.endPoint
      offset == measurement.dimensionOffset
      labelOffset == IF measurement.labelOffset = 0 THEN defaultLabelOffset
                     ELSE measurement.labelOffset
      dx == endPoint.x - startPoint.x
      dy == endPoint.y - startPoint.y
      len == ISqrt(dx * dx + dy * dy)
      shift == IF len = 0 THEN Pt(0, 0)
               ELSE Pt(SDiv((0 - dy) * offset, len), SDiv(dx * offset, len))
      dimLineStart == Pt(startPoint.x + shift.x, startPoint.y + shift.y)
      dimLineEnd == Pt(endPoint.x + shift.x, endPoint.y + shift.y)
  IN Pt(dimLineStart.x
          + SDiv((dimLineEnd.x - dimLineStart.x) * labelOffset, 100),
        dimLineStart.y
          + SDiv((dimLineEnd.y - dimLineStart.y) * labelOffset, 100))

\* variant: the extension is added to the start point itself, not to a
\* clone of it
afterLabelUpdate_mut(measurement) ==
  LET dx == measurement.endPoint.x - measurement.startPoint.x
      dy == measurement.endPoint.y - measurement.startPoint.y
      len == ISqrt(dx * dx + dy * dy)
  IN IF len = 0 THEN measurement
     ELSE [measurement EXCEPT
             !.startPoint =
               Pt(measurement.startPoint.x
                    + SDiv((0 - dy) * measurement.dimensionOffset, len),
                  measurement.startPoint.y
                    + SDiv(dx * measurement.dimensionOffset, len))]

\* a measurement after its label was placed: the start and end points are
\* read, and every vector operation is done on a clone
afterLabelUpdate(measurement) == measurement

\* one turn of the render loop; the label positions it writes to the page
\* are kept in `returned`
AnimationFrame ==
  /\ returned' = <<[i \in 1..Len(measurements) |->
                     labelWorldPosition(measurements[i])]>>
  /\ measurements' = [i \in 1..Len(measurements) |->
                        afterLabelUpdate(measurements[i])]
  /\ UNCHANGED <<probe, measureMode, measureToolVars, activeMeasurementId,
                 storeActiveMeasurementId, nextMeasurementId, trackingVars,
                 sceneVars, moduleVars, dragVars, labelDrag, lastEvent,
                 gestureCount>>

\* a point right of and above the plane
FramePointer == {Pt(700, 450)}

FrameInput == {<<p>> : p \in FramePointer}

\* a session on the scene with two measurements and the plane selected, in
\* which the handles of the plane are dragged and the measure tool is
\* switched on and clicked, with the render loop running
InitFrame == InitResize /\ selected = "s1"

NextFrame ==
  \/ \E m \in FrameInput :
       \E hit \in {h \in Hits(m) : h.type = "resize"} : PointerDown(hit, m)
  \/ \E m \in FrameInput, shift \in BOOLEAN : PointerMove(m, shift)
  \/ PointerUp
  \/ HandleMeasureToggle
  \/ \E m \in MeasureInput : HandleMeasureClick(m)
  \/ AnimationFrame

SpecFrame == InitFrame /\ [][NextFrame]_vars

\* C23: the per-animation-frame callback, invoked in any state, leaves the
\* geometry and transform of every shape, the end points, distance and
\* offset of every Measurement and all interaction state unchanged.
C23_FrameMutatesNothing ==
  [][AnimationFrame =>
       /\ shapes' = shapes
       /\ measurements' = measurements
       /\ UNCHANGED <<measurementTrackingMap, shapeToMeasurementsMap>>
       /\ UNCHANGED <<measureMode, firstPoint, secondPoint, currentSnapPoint,
                      previewDimensionOffset, firstPointShapeUuid,
                      secondPointShapeUuid, secondClickPosition>>
       /\ UNCHANGED <<selected, activeMeasurementId, storeActiveMeasurementId,
                      labelDrag, dragVars, moduleVars>>]_vars

\* the labels were placed while a plane handle was held, the plane, with the
\* measurement attached to it, had been resized, and the measure tool was
\* between click 1 and click 2
C23_Witness ==
  /\ returned # <<>>
  /\ activeResizeKind = "plane"
  /\ shapes["s1"] # InitialShapes["s1"]
  /\ Len(measurements) = 2
  /\ measurements[1].startPoint # Pt(200, 200)
  /\ returned[1] = [i \in 1..2 |-> labelWorldPosition(measurements[i])]
  /\ measureMode
  /\ firstPoint # <<>>
  /\ secondPoint = <<>>

-----------------------------------------------------------------------------
(* Properties of the label session, continued *)

\* the fields of a measurement that a label drag must keep
SameButOffsets(a, b) ==
  /\ a.id = b.id
  /\ a.startPoint = b.startPoint
  /\ a.endPoint = b.endPoint
  /\ a.distanceSq = b.distanceSq

\* C24: a label drag changes only the offset and the label position of the
\* dragged Measurement: over any sequence of label-drag begin, move and end,
\* its end points, cached distance and attachments, every other Measurement
\* and every shape stay as they were.
C24_OnlyOffsetsOfDragged ==
  [][/\ shapes' = shapes
     /\ measurementTrackingMap' = measurementTrackingMap
     /\ shapeToMeasurementsMap' = shapeToMeasurementsMap
     /\ Len(measurements') = Len(measurements)
     /\ \A i \in 1..Len(measurements) :
          /\ SameButOffsets(measurements'[i], measurements[i])
          /\ measurements'[i] # measurements[i]
               => measurements[i].id = activeMeasurementId]_vars

\* a label drag has moved the offset and the label position of the first
\* measurement and left the second one as it was
C24_Witness ==
  /\ labelDrag.isDraggingLabel
  /\ lastEvent = "move"
  /\ activeMeasurementId = 1
  /\ measurements[1].dimensionOffset # 0
  /\ measurements[1].labelOffset # defaultLabelOffset
  /\ measurements[2].dimensionOffset = defaultDimensionOffset
  /\ measurements[2].labelOffset = defaultLabelOffset

-----------------------------------------------------------------------------
(* A rotate-handle drag taken alone, on pointer angles in whole degrees:   *)
(* updatePlaneRotate and updateCircleRotate from the angle of the pointer  *)
(* around the centre of the shape                                          *)

\* Math.atan2(deltaY, deltaX) of the pointer positions, in degrees
RotateAngles == (0 - MaxRotateAngle)..MaxRotateAngle

\* mesh.rotation.z when the drag begins, in degrees
InitialRotations == {0, 7, 90, 185}

\* beginPlaneRotate / beginCircleRotate on a mesh with one of the initial
\* rotations; probe holds the state of the rotate module and the rotation
\* of the mesh
InitRotate ==
  /\ InitIdle
  /\ \E r \in InitialRotations :
       probe = [isRotating |-> TRUE, initialRotation |-> r,
                initialMouseAngle |-> 0, hasInitialAngle |-> FALSE,
                rotation |-> r]
  /\ returned = <<>>

\* a pointer-move at an angle around the centre of the shape
RotateMove(currentMouseAngle, shiftKey) ==
  /\ probe.isRotating
  /\ IF ~probe.hasInitialAngle
     THEN probe' = [probe EXCEPT !.initialMouseAngle = currentMouseAngle,
                                 !.hasInitialAngle = TRUE]
     ELSE probe' = [probe EXCEPT
                      !.rotation = rotationAfter(probe.initialRotation,
                                                 probe.initialMouseAngle,
                                                 currentMouseAngle, shiftKey)]
  /\ UNCHANGED <<returned, programVars>>

NextRotate ==
  \E currentMouseAngle \in RotateAngles, shiftKey \in BOOLEAN :
    RotateMove(currentMouseAngle, shiftKey)

SpecRotate == InitRotate /\ [][NextRotate]_vars

\* C25: during a rotate-handle drag, once the first pointer-move has
\* captured the initial pointer angle, each later move sets the rotation of
\* the shape to initialRotation + (currentAngle - initialAngle); with the
\* modifier key held the resulting rotation is a multiple of 15 degrees.
C25_RotationFollowsPointer ==
  [][\A currentMouseAngle \in RotateAngles, shiftKey \in BOOLEAN :
       RotateMove(currentMouseAngle, shiftKey) =>
         IF probe.hasInitialAngle
         THEN /\ ~shiftKey =>
                   probe'.rotation
                     = probe.initialRotation
                         + (currentMouseAngle - probe.initialMouseAngle)
              /\ shiftKey => probe'.rotation % 15 = 0
              /\ probe'.initialMouseAngle = probe.initialMouseAngle
         ELSE /\ probe'.rotation = probe.rotation
              /\ probe'.initialMouseAngle = currentMouseAngle]_vars

\* a drag of a shape turned by 7 degrees, from the lowest pointer angle
\* to an angle that, with the modifier key, snapped the rotation to 30
C25_Witness ==
  /\ probe # <<>>
  /\ probe.hasInitialAngle
  /\ probe.initialRotation = 7
  /\ probe.initialMouseAngle = 0 - MaxRotateAngle
  /\ probe.rotation = 30

-----------------------------------------------------------------------------
(* Properties of the editing session, continued *)

\* C26: after any sequence of label select, deselect, measurement delete and
\* shape delete, the active-measurement id of the measurement manager and
\* the one of the UI store are equal, and when not null they identify a
\* Measurement of the collection.
C26_AsStated ==
  /\ activeMeasurementId = storeActiveMeasurementId
  /\ activeMeasurementId # 0
       => activeMeasurementId \in MeasurementIds(measurements)
  /\ storeActiveMeasurementId # 0
       => storeActiveMeasurementId \in MeasurementIds(measurements)

-----------------------------------------------------------------------------
(* Editing session with measurementManager.clearAllMeasurements *)

\* the collection is emptied and the manager's active id is reset; the
\* tracking maps of trackMeasurement.ts are not touched
ClearAllMeasurements ==
  /\ measurements' = <<>>
  /\ activeMeasurementId' = 0
  /\ lastEvent' = "clear"
  /\ UNCHANGED <<callVars, gestureCount, measureMode, measureToolVars,
                 storeActiveMeasurementId, nextMeasurementId, trackingVars,
                 sceneVars, moduleVars, dragVars, labelDrag>>

NextClear ==
  \/ NextDrag
  \/ ClearAllMeasurements

SpecClear == InitDrag /\ [][NextClear]_vars

\* C27: after any sequence of measurement creation, measurement deletion,
\* shape deletion and clear-all-measurements, every measurement id listed
\* under a shape in the shape-to-measurements map has a tracking entry with
\* an end point attached to that shape and identifies a Measurement of the
\* collection.
C27_AsStated ==
  \A shapeId \in DOMAIN shapeToMeasurementsMap :
    \A id \in shapeToMeasurementsMap[shapeId] :
      /\ id \in DOMAIN measurementTrackingMap
      /\ \/ IsAttachedTo(measurementTrackingMap[id].startAttachment, shapeId)
         \/ IsAttachedTo(measurementTrackingMap[id].endAttachment, shapeId)
      /\ id \in MeasurementIds(measurements)

-----------------------------------------------------------------------------
(* Properties of measuring between features, continued *)

\* C28: every Measurement created by the three clicks has stored end points
\* at least 0.3048 m apart, for clicks anywhere on the drawing canvas.
C28_AsStated ==
  \A i \in 1..Len(measurements) :
    ~IsTooShort(measurements[i].startPoint, measurements[i].endPoint)

\* C29: entering or leaving measure mode resets the click state machine to
\* empty, and outside measure mode it is always empty; a click on the empty
\* machine is click 1 (or has no effect) and creates no Measurement; the
\* Measurement of a third click has the two points recorded since then.
C29_ToggleResets ==
  /\ [](~measureMode => ClickStateEmpty)
  /\ [][HandleMeasureToggle => ClickStateEmpty']_vars
  /\ [][\A m \in MeasureInput :
          (HandleMeasureClick(m) /\ ClickStateEmpty) =>
            /\ lastEvent' \in {"noop", "ignored", "click1"}
            /\ measurements' = measurements
            /\ secondPoint' = <<>>]_vars
  /\ [][\A m \in MeasureInput :
          (HandleMeasureClick(m) /\ lastEvent' = "click3") =>
            /\ ~ClickStateEmpty
            /\ measurements'[Len(measurements')].startPoint = firstPoint[1]
            /\ measurements'[Len(measurements')].endPoint = secondPoint[1]]_vars

\* measure mode was left and then entered again after a Measurement was made
C29_Witness ==
  /\ lastEvent = "toggle"
  /\ measureMode
  /\ ClickStateEmpty
  /\ Len(measurements) = 1

-----------------------------------------------------------------------------
(* Properties of the snap resolver, continued *)

\* C30: whenever the snap resolver returns an edge snap, it is the
\* projection on the edge nearest to the cursor among all candidate edges:
\* no other edge is strictly nearer to the cursor.
C30_AsStated ==
  (returned # <<>> /\ returned[1].edge # <<>>)
    => /\ returned[1].snap # <<>>
       /\ returned[1].snap[1].type = "edge"
       /\ returned[1].snap[1].position
            = closestPointOnSegment(probe.mouseWorldPos,
                                    returned[1].edge[1].start,
                                    returned[1].edge[1].end)
       /\ DistSq(probe.mouseWorldPos, returned[1].snap[1].position)
            = NearestEdgeDistSq

====
